---- MODULE Spec2Model ----
(***************************************************************************)
(* Organelle Taxonomy Supplementer: the notebook cell that reads the       *)
(* Metaxa2 and PhytoRef FASTA collections and writes the combined          *)
(* organelle FASTA and the Silva and Greengenes taxonomy mappings.         *)
(*                                                                         *)
(* Text is modelled as a sequence of one-character strings, so that        *)
(* substring tests, splitting and line structure are computed, not assumed.*)
(***************************************************************************)
EXTENDS Integers, Sequences, FiniteSets, TLC

(***************************************************************************)
(* Bounds of the model.                                                    *)
(***************************************************************************)
\* Largest number of records in one input collection.
MaxRecords == 2

\* Largest record index whose identifier is compared with the others.
MaxIndex == 120

\* Cells executed in one session of the older notebook.
MaxExecutions == 7

(***************************************************************************)
(* Python string operations used by the cell.                              *)
(***************************************************************************)
\* pat in s
Contains(s, pat) ==
    \E k \in 0..(Len(s) - Len(pat)) : SubSeq(s, k + 1, k + Len(pat)) = pat

\* s.split(c): the fields of s between the occurrences of the character c.
Split(s, c) ==
    LET IsCut(k) == s[k] = c
        \* the positions of c in s, ascending
        at == SelectSeq([k \in 1..Len(s) |-> k], IsCut)
        n == Len(at)
        from(j) == IF j = 1 THEN 1 ELSE at[j - 1] + 1
        to(j) == IF j = n + 1 THEN Len(s) ELSE at[j] - 1
    IN [j \in 1..(n + 1) |-> SubSeq(s, from(j), to(j))]

\* xs[-1]
Last(xs) == xs[Len(xs)]

Digit(d) == <<"0", "1", "2", "3", "4", "5", "6", "7", "8", "9">>[d + 1]

\* str(n) for a non-negative integer: its decimal digits.
RECURSIVE str(_)
str(n) == IF n < 10 THEN <<Digit(n)>> ELSE str(n \div 10) \o <<Digit(n % 10)>>

\* ''.join(parts)
RECURSIVE Join(_)
Join(parts) == IF parts = <<>> THEN <<>> ELSE Head(parts) \o Join(Tail(parts))

(***************************************************************************)
(* String literals of the cell.                                            *)
(***************************************************************************)
silva_mitochondria_prefix ==
    <<"d", "_", "_", "B", "a", "c", "t", "e", "r", "i", "a", ";",
      " ", "p", "_", "_", "P", "r", "o", "t", "e", "o", "b", "a",
      "c", "t", "e", "r", "i", "a", ";", " ", "c", "_", "_", "A",
      "l", "p", "h", "a", "p", "r", "o", "t", "e", "o", "b", "a",
      "c", "t", "e", "r", "i", "a", ";", " ", "o", "_", "_", "R",
      "i", "c", "k", "e", "t", "t", "s", "i", "a", "l", "e", "s",
      ";", " ", "f", "_", "_", "M", "i", "t", "o", "c", "h", "o",
      "n", "d", "r", "i", "a", ";", " ", "g", "_", "_", "M", "i",
      "t", "o", "c", "h", "o", "n", "d", "r", "i", "a", ";", " ",
      "s", "_", "_">>

silva_chloroplast_prefix ==
    <<"d", "_", "_", "B", "a", "c", "t", "e", "r", "i", "a", ";",
      " ", "p", "_", "_", "C", "y", "a", "n", "o", "b", "a", "c",
      "t", "e", "r", "i", "a", ";", " ", "c", "_", "_", "C", "y",
      "a", "n", "o", "b", "a", "c", "t", "e", "r", "i", "i", "a",
      ";", " ", "o", "_", "_", "C", "h", "l", "o", "r", "o", "p",
      "l", "a", "s", "t", ";", " ", "f", "_", "_", "C", "h", "l",
      "o", "r", "o", "p", "l", "a", "s", "t", ";", " ", "g", "_",
      "_", "C", "h", "l", "o", "r", "o", "p", "l", "a", "s", "t",
      ";", " ", "s", "_", "_">>

greengenes_mitochondria_prefix ==
    <<"k", "_", "_", "B", "a", "c", "t", "e", "r", "i", "a", ";",
      " ", "p", "_", "_", "P", "r", "o", "t", "e", "o", "b", "a",
      "c", "t", "e", "r", "i", "a", ";", " ", "c", "_", "_", "A",
      "l", "p", "h", "a", "p", "r", "o", "t", "e", "o", "b", "a",
      "c", "t", "e", "r", "i", "a", ";", " ", "o", "_", "_", "R",
      "i", "c", "k", "e", "t", "t", "s", "i", "a", "l", "e", "s",
      ";", " ", "f", "_", "_", "m", "i", "t", "o", "c", "h", "o",
      "n", "d", "r", "i", "a", ";", " ", "g", "_", "_", "M", "i",
      "t", "o", "c", "h", "o", "n", "d", "r", "i", "a", ";", " ",
      "s", "_", "_">>

greengenes_chloroplast_prefix ==
    <<"k", "_", "_", "B", "a", "c", "t", "e", "r", "i", "a", ";",
      " ", "p", "_", "_", "C", "y", "a", "n", "o", "b", "a", "c",
      "t", "e", "r", "i", "a", ";", " ", "c", "_", "_", "C", "h",
      "l", "o", "r", "o", "p", "l", "a", "s", "t", ";", " ", "o",
      "_", "_", "C", "h", "l", "o", "r", "o", "p", "l", "a", "s",
      "t", ";", " ", "f", "_", "_", "C", "h", "l", "o", "r", "o",
      "p", "l", "a", "s", "t", ";", " ", "g", "_", "_", "C", "h",
      "l", "o", "r", "o", "p", "l", "a", "s", "t", ";", " ", "s",
      "_", "_">>

\* 'Feature ID\tTaxon\n'
TaxonomyHeader == <<"F", "e", "a", "t", "u", "r", "e", " ", "I", "D", "\t", "T",
                    "a", "x", "o", "n", "\n">>

MitoTag == <<"m", "e", "t", "a", "x", "a", "2", "_", "m", "i", "t", "o",
             "c", "h", "o", "n", "d", "r", "i", "a", "_">>

ChloroTag == <<"p", "h", "y", "t", "o", "r", "e", "f", "_", "c", "h", "l",
               "o", "r", "o", "p", "l", "a", "s", "t", "_">>

\* Faulty variant: the count starts at 1.
MitoId_OneBased(n) == MitoTag \o str(n + 1)

\* f'metaxa2_mitochondria_{i}'
MitoId(n) == MitoTag \o str(n)

\* Faulty variant: both categories share one name prefix.
ChloroId_MitoTag(n) == MitoTag \o str(n)

\* f'phytoref_chloroplast_{i}'
ChloroId(n) == ChloroTag \o str(n)

\* Faulty variant: only the lower-case spelling is looked for.
MitoFilter_LowercaseOnly(e) == Contains(e.description, <<"m", "i", "t", "o", "c", "h", "o", "n", "d", "r", "i", "a">>)

\* Faulty variant: a mitochondria record with a placeholder run in its
\* sequence is dropped as well.
MitoFilter_AlsoSequence(e) ==
    /\ \/ Contains(e.description, <<"m", "i", "t", "o", "c", "h", "o", "n", "d", "r", "i", "a">>)
       \/ Contains(e.description, <<"M", "i", "t", "o", "c", "h", "o", "n", "d", "r", "i", "a">>)
    /\ ~Contains(e.seq, <<"X", "X", "X", "X", "X", "X", "X", "X", "X", "X">>)

\* 'mitochondria' in entry.description or 'Mitochondria' in entry.description
MitoFilter(e) ==
    \/ Contains(e.description, <<"m", "i", "t", "o", "c", "h", "o", "n", "d", "r", "i", "a">>)
    \/ Contains(e.description, <<"M", "i", "t", "o", "c", "h", "o", "n", "d", "r", "i", "a">>)

\* Faulty variant: the placeholder run is looked for in the description.
ChloroFilter_Description(e) == ~Contains(e.description, <<"X", "X", "X", "X", "X", "X", "X", "X", "X", "X">>)

\* Faulty variant: the test is inverted.
ChloroFilter_Inverted(e) == Contains(e.seq, <<"X", "X", "X", "X", "X", "X", "X", "X", "X", "X">>)

\* not 'XXXXXXXXXX' in entry.seq
ChloroFilter(e) == ~Contains(e.seq, <<"X", "X", "X", "X", "X", "X", "X", "X", "X", "X">>)

\* s.strip()
Strip(s) ==
    LET ink == { k \in 1..Len(s) : s[k] \notin {" ", "\t", "\n"} }
    IN IF ink = {} THEN <<>>
       ELSE SubSeq(s, CHOOSE p \in ink : \A q \in ink : p <= q,
                      CHOOSE p \in ink : \A q \in ink : q <= p)

\* Faulty variant: the field is trimmed.
MitoSpecificInfo_Stripped(e) == Strip(Last(Split(e.description, ";")))

\* str(entry.description).split(';')[-1]
MitoSpecificInfo(e) == Last(Split(e.description, ";"))

\* str(entry.description).split('|')[-1]
ChloroSpecificInfo(e) == Last(Split(e.description, "|"))

\* f'>{id}\n'
FastaHeaderLine(id) == <<">">> \o id \o <<"\n">>

\* Faulty variant: the line break after the sequence is forgotten.
FastaSeqLine_NoNewline(e) == e.seq

\* str(entry.seq + '\n')
FastaSeqLine(e) == e.seq \o <<"\n">>

\* Faulty variant: the line break ending the row is forgotten.
TaxonomyRow_NoNewline(id, prefix, info) == id \o <<"\t">> \o prefix \o info

\* Faulty variant: tabs in the species text are replaced by spaces.
TaxonomyRow_TabsReplaced(id, prefix, info) ==
    id \o <<"\t">> \o prefix \o
    [k \in 1..Len(info) |-> IF info[k] = "\t" THEN " " ELSE info[k]] \o
    <<"\n">>

\* f'{id}\t{prefix}{specific_info}\n'
TaxonomyRow(id, prefix, info) == id \o <<"\t">> \o prefix \o info \o <<"\n">>

(***************************************************************************)
(* Input collections.  A stored record is its description and the lines    *)
(* its sequence is laid out on; SeqIO.parse yields the description and the *)
(* sequence with the lines joined.                                         *)
(***************************************************************************)
HasPrefix(s, p) == Len(s) >= Len(p) /\ SubSeq(s, 1, Len(p)) = p

HasSuffix(s, p) == Len(s) >= Len(p) /\ SubSeq(s, Len(s) - Len(p) + 1, Len(s)) = p

Rec(d, ls) == [description |-> d, lines |-> ls]

MitoRecords ==
    { Rec(<<"a", "c", "c", "e", "s", "s", "i", "o", "n", "1", "2", "3",
            ";", "E", "u", "k", "a", "r", "y", "o", "t", "a", ";", ".",
            ".", ".", ";", "M", "i", "t", "o", "c", "h", "o", "n", "d",
            "r", "i", "a", ";", "H", "o", "m", "o", " ", "s", "a", "p",
            "i", "e", "n", "s">>, <<<<"A", "C", "G", "T">>>>),
      Rec(<<"m", "i", "t", "o", "c", "h", "o", "n", "d", "r", "i", "a",
            ";", " ", "x">>, <<<<"A", "C">>, <<"G", "T">>>>),
      Rec(<<"m", "i", "t", "o", "c", "h", "o", "n", "d", "r", "i", ";",
            "M", "I", "T", "O", "C", "H", "O", "N", "D", "R", "I", "A",
            ";", "y">>, <<<<"A", "C", "G", "T">>>>),
      Rec(<<"z", "\t", "M", "i", "t", "o", "c", "h", "o", "n", "d", "r", "i", "a">>, <<<<"X", "X", "X", "X", "X", "X", "X", "X", "X", "X">>>>) }

ChloroRecords ==
    { Rec(<<"P", "1", "|", "C", "h", "l", "o", "r", "o", "p", "l", "a",
            "s", "t", "|", "Z", " ", "m">>, <<<<"A", "C", "G", "T">>>>),
      Rec(<<"P", "2", "|", "w">>, <<<<"A", "C", "G", "T", "X", "X", "X", "X", "X">>, <<"X", "X", "X", "X", "X", "A", "C", "G", "T">>>>),
      Rec(<<"X", "X", "X", "X", "X", "X", "X", "X", "X", "X", ";", "\t",
            "q">>,
          <<<<"X", "X", "X", "X", "X", "X", "X", "X", "X">>, <<"G">>>>) }

SeqsUpTo(S, n) == UNION { [1..k -> S] : k \in 0..n }

\* Contents an output file may hold before the run.
PriorContents == { <<>>, <<"o", "l", "d", "\n">> }

\* One record as SeqIO.parse yields it.
ParseRecord(r) == [description |-> r.description, seq |-> Join(r.lines)]

NoEntry == [description |-> <<>>, seq |-> <<>>]

(***************************************************************************)
(* State.                                                                  *)
(***************************************************************************)
VARIABLES
    metaxa2_exists,   \* whether metaxa2.fasta exists
    metaxa2_fasta,    \* its records
    phytoref_exists,  \* whether PhytoRef_with_taxonomy.fasta exists
    phytoref_fasta,   \* its records
    silva_taxonomy,   \* text of silva_organelle_taxonomy.tsv
    gg_taxonomy,      \* text of the Greengenes organelle taxonomy file
    organelle_seqs,   \* text of organelle_sequences.fasta
    open_handles,     \* the output files currently open
    pc,               \* position in the cell
    i,                \* enumerate index of the current loop
    entry,            \* current record
    specific_info,    \* local variable specific_info
    error,            \* the exception propagating, or "none"
    log,              \* history: the operations performed so far, in order
    older_silva_taxonomy,  \* older notebook: text of silva_organelle_taxonomy.tsv
    older_gg_taxonomy,     \* older notebook: text of gg_organelle_taxonomy.tsv
    older_organelle_seqs,  \* older notebook: text of organelle_sequences.fasta
    bound,            \* older notebook: the names bound in the kernel
    namespace,        \* older notebook: the values of the path-valued names
    disk,             \* the paths of the study's files that exist
    execution_count,  \* older notebook: cells executed in the session
    last              \* older notebook: outcome of the cell executed last

vars == <<metaxa2_exists, metaxa2_fasta, phytoref_exists, phytoref_fasta,
          silva_taxonomy, gg_taxonomy, organelle_seqs, open_handles, pc, i,
          entry, specific_info, error, log, older_silva_taxonomy,
          older_gg_taxonomy, older_organelle_seqs, bound, namespace, disk,
          execution_count, last>>

\* The state of the older notebook (src/unnamed/part_000).
part_000 == <<older_silva_taxonomy, older_gg_taxonomy, older_organelle_seqs,
              bound, namespace, disk, execution_count, last>>

kernel == <<bound, namespace, execution_count, last>>

inputs == <<metaxa2_exists, metaxa2_fasta, phytoref_exists, phytoref_fasta>>

locals == <<i, entry, specific_info>>

(***************************************************************************)
(* The older notebook (src/unnamed/part_000): one kernel session.  The      *)
(* kernel keeps its namespace from cell to cell.  A cell is the list of the *)
(* statements it executes, each with the names it reads and binds; the cell *)
(* ends at the first statement that reads an unbound name (NameError) or    *)
(* raises, and what the statements before it did stays done.                *)
(***************************************************************************)
\* The names whose values the later cells use as paths.
PathNames ==
    {"working_dir", "refs_dir", "metadata_path", "seqs_path",
     "taxonomy_reference_dir", "existing_file", "feature_table_dir",
     "mapping_file", "sequence_file", "output_dir", "output_filepath"}

\* What an earlier session left in the older notebook's output files.
OlderPrior == <<"o", "l", "d", "\n">>

\* No cell has been executed yet.
NoCell ==
    [cell |-> "", raised |-> "none", line |-> 0, unbound |-> {},
     stdout |-> <<>>, saved |-> <<>>, found |-> {}]

\* A kernel that has just been started.
FreshKernel ==
    /\ bound = {}
    /\ namespace = [n \in PathNames |-> ""]
    /\ execution_count = 0
    /\ last = NoCell

\* A statement that reads and binds names.
Stmt(line, reads, binds) ==
    [line |-> line, reads |-> reads, binds |-> binds, clears |-> {},
     op |-> "", name |-> "", text |-> ""]

\* name = value, for a path-valued name.
Assign(line, reads, name, value) ==
    [line |-> line, reads |-> reads, binds |-> {name}, clears |-> {},
     op |-> "assign", name |-> name, text |-> value]

\* name = an empty container: the entries it held are gone.
Reset(line, reads, name, entries) ==
    [line |-> line, reads |-> reads, binds |-> {name}, clears |-> {entries},
     op |-> "", name |-> "", text |-> ""]

\* print(text)
Prints(line, reads, text) ==
    [line |-> line, reads |-> reads, binds |-> {}, clears |-> {},
     op |-> "print", name |-> "", text |-> text]

\* artifact.save(file)
Save(line, reads, file) ==
    [line |-> line, reads |-> reads, binds |-> {}, clears |-> {},
     op |-> "save", name |-> "", text |-> file]

\* A statement that raises the exception kind.
Raises(line, reads, kind) ==
    [line |-> line, reads |-> reads, binds |-> {}, clears |-> {},
     op |-> "raise", name |-> "", text |-> kind]

\* The cell from its statement k on, st being the kernel and the cell's
\* output so far: it ends at the first statement that reads an unbound name
\* or raises.
RECURSIVE RunFrom(_, _, _)
RunFrom(stmts, k, st) ==
    IF k > Len(stmts) THEN st
    ELSE LET s == stmts[k]
         IN IF s.reads \ st.bound # {}
            THEN [st EXCEPT !.raised = "NameError", !.line = s.line,
                            !.unbound = s.reads \ st.bound]
            ELSE IF s.op = "raise"
            THEN [st EXCEPT !.raised = s.text, !.line = s.line]
            ELSE RunFrom(stmts, k + 1,
                     [st EXCEPT
                         !.bound = (st.bound \ s.clears) \cup s.binds,
                         !.namespace =
                             IF s.op = "assign"
                             THEN [st.namespace EXCEPT ![s.name] = s.text]
                             ELSE st.namespace,
                         !.stdout = IF s.op = "print"
                                    THEN Append(st.stdout, s.text)
                                    ELSE st.stdout,
                         !.saved = IF s.op = "save"
                                   THEN Append(st.saved, s.text)
                                   ELSE st.saved])

\* What executing a cell does to the kernel; found keeps the files of the
\* study that existed when the cell was executed.
Outcome(cell, stmts, b, ns) ==
    LET end == RunFrom(stmts, 1,
                       [bound |-> b, namespace |-> ns, raised |-> "none",
                        line |-> 0, unbound |-> {}, stdout |-> <<>>,
                        saved |-> <<>>])
    IN [bound |-> end.bound,
        namespace |-> end.namespace,
        last |-> [cell |-> cell, raised |-> end.raised, line |-> end.line,
                  unbound |-> end.unbound, stdout |-> end.stdout,
                  saved |-> end.saved, found |-> disk]]

\* Executing a cell: the kernel after it.
Execute(cell, stmts) ==
    LET o == Outcome(cell, stmts, bound, namespace)
    IN /\ bound' = o.bound
       /\ namespace' = o.namespace
       /\ last' = o.last
       /\ execution_count' = execution_count + 1

Init ==
    /\ metaxa2_exists \in BOOLEAN
    /\ metaxa2_fasta \in SeqsUpTo(MitoRecords, MaxRecords)
    /\ ~metaxa2_exists => metaxa2_fasta = <<>>
    /\ phytoref_exists \in BOOLEAN
    /\ phytoref_fasta \in SeqsUpTo(ChloroRecords, MaxRecords)
    /\ ~phytoref_exists => phytoref_fasta = <<>>
    /\ \E prior \in PriorContents :
          /\ silva_taxonomy = prior
          /\ gg_taxonomy = prior
          /\ organelle_seqs = prior
    /\ open_handles = {}
    /\ pc = "open_silva"
    /\ i = 0
    /\ entry = NoEntry
    /\ specific_info = <<>>
    /\ error = "none"
    /\ log = <<>>
    /\ older_silva_taxonomy = OlderPrior
    /\ older_gg_taxonomy = OlderPrior
    /\ older_organelle_seqs = OlderPrior
    /\ FreshKernel
    /\ disk = {}

\* One entry of the history: an operation on a file.
Event(op, file, what, id, text, index) ==
    [op |-> op, file |-> file, what |-> what, id |-> id, text |-> text,
     index |-> index]

Opened(file) == Event("open", file, "", <<>>, <<>>, 0)

Closed(file) == Event("close", file, "", <<>>, <<>>, 0)

Parsed(file) == Event("parse", file, "", <<>>, <<>>, 0)

ReadRecord(file, k) == Event("read", file, "record", <<>>, <<>>, k)

Wrote(file, what, id, text) == Event("write", file, what, id, text, 0)

\* How many times an operation was performed on a file so far.
Performed(op, file) ==
    Cardinality({ k \in 1..Len(log) : log[k].op = op /\ log[k].file = file })

(***************************************************************************)
(* The cell, one action per statement.                                     *)
(***************************************************************************)
\* Faulty variant: the file is opened for appending.
OpenSilva_Append ==
    /\ pc = "open_silva"
    /\ open_handles' = open_handles \cup {"silva_taxonomy"}
    /\ pc' = "open_gg"
    /\ log' = Append(log, Opened("silva_taxonomy"))
    /\ UNCHANGED <<part_000, inputs, silva_taxonomy, gg_taxonomy, organelle_seqs, locals, error>>

\* with open(... 'silva_organelle_taxonomy.tsv', 'w') as silva_taxonomy:
OpenSilva ==
    /\ pc = "open_silva"
    /\ silva_taxonomy' = <<>>
    /\ open_handles' = open_handles \cup {"silva_taxonomy"}
    /\ pc' = "open_gg"
    /\ log' = Append(log, Opened("silva_taxonomy"))
    /\ UNCHANGED <<part_000, inputs, gg_taxonomy, organelle_seqs, locals, error>>

\* with open(... 'greengenes_organelle_taxonomy.tsv', 'w') as gg_taxonomy:
OpenGG ==
    /\ pc = "open_gg"
    /\ gg_taxonomy' = <<>>
    /\ open_handles' = open_handles \cup {"gg_taxonomy"}
    /\ pc' = "header_silva"
    /\ log' = Append(log, Opened("gg_taxonomy"))
    /\ UNCHANGED <<part_000, inputs, silva_taxonomy, organelle_seqs, locals, error>>

\* silva_taxonomy.write('Feature ID\tTaxon\n')
WriteSilvaHeader ==
    /\ pc = "header_silva"
    /\ silva_taxonomy' = silva_taxonomy \o TaxonomyHeader
    /\ pc' = "header_gg"
    /\ log' = Append(log, Wrote("silva_taxonomy", "header", <<>>,
                             TaxonomyHeader))
    /\ UNCHANGED <<part_000, inputs, gg_taxonomy, organelle_seqs, open_handles, locals, error>>

\* Faulty variant: the Greengenes header is not written before the loops.
WriteGGHeader_Skipped ==
    /\ pc = "header_gg"
    /\ pc' = "open_fasta"
    /\ UNCHANGED <<part_000, inputs, log, silva_taxonomy, gg_taxonomy, organelle_seqs,
                   open_handles, locals, error>>

\* gg_taxonomy.write('Feature ID\tTaxon\n')
WriteGGHeader ==
    /\ pc = "header_gg"
    /\ gg_taxonomy' = gg_taxonomy \o TaxonomyHeader
    /\ pc' = "open_fasta"
    /\ log' = Append(log, Wrote("gg_taxonomy", "header", <<>>,
                             TaxonomyHeader))
    /\ UNCHANGED <<part_000, inputs, silva_taxonomy, organelle_seqs, open_handles, locals, error>>

\* Faulty variant: the combined FASTA is opened for appending.
OpenFasta_Append ==
    /\ pc = "open_fasta"
    /\ open_handles' = open_handles \cup {"organelle_seqs"}
    /\ pc' = "mito_parse"
    /\ log' = Append(log, Opened("organelle_seqs"))
    /\ UNCHANGED <<part_000, inputs, silva_taxonomy, gg_taxonomy, organelle_seqs, locals, error>>

\* with open(... 'organelle_sequences.fasta', 'w') as organelle_seqs:
OpenFasta ==
    /\ pc = "open_fasta"
    /\ organelle_seqs' = <<>>
    /\ open_handles' = open_handles \cup {"organelle_seqs"}
    /\ pc' = "mito_parse"
    /\ log' = Append(log, Opened("organelle_seqs"))
    /\ UNCHANGED <<part_000, inputs, silva_taxonomy, gg_taxonomy, locals, error>>

\* Faulty variant: an input without records is rejected.
MitoParse_RejectEmpty ==
    /\ pc = "mito_parse"
    /\ metaxa2_exists
    /\ IF metaxa2_fasta = <<>>
       THEN error' = "ValueError" /\ pc' = "close_fasta" /\ i' = i
       ELSE error' = error /\ pc' = "mito_for" /\ i' = 0
    /\ log' = Append(log, Parsed("metaxa2_fasta"))
    /\ UNCHANGED <<part_000, inputs, silva_taxonomy, gg_taxonomy, organelle_seqs,
                   open_handles, entry, specific_info>>

\* Faulty variant: the index is a counter that is never set back.
MitoParse_NoReset ==
    /\ pc = "mito_parse"
    /\ metaxa2_exists
    /\ pc' = "mito_for"
    /\ log' = Append(log, Parsed("metaxa2_fasta"))
    /\ UNCHANGED <<part_000, inputs, silva_taxonomy, gg_taxonomy, organelle_seqs,
                   open_handles, locals, error>>

\* enumerate(SeqIO.parse(... 'metaxa2.fasta', 'fasta')): the file is opened.
MitoParse ==
    /\ pc = "mito_parse"
    /\ metaxa2_exists
    /\ i' = 0
    /\ pc' = "mito_for"
    /\ log' = Append(log, Parsed("metaxa2_fasta"))
    /\ UNCHANGED <<part_000, inputs, silva_taxonomy, gg_taxonomy, organelle_seqs,
                   open_handles, entry, specific_info, error>>

\* Faulty variant: the exception is caught and the cell carries on.
MitoParseMissing_Caught ==
    /\ pc = "mito_parse"
    /\ ~metaxa2_exists
    /\ pc' = "chloro_parse"
    /\ log' = Append(log, Parsed("metaxa2_fasta"))
    /\ UNCHANGED <<part_000, inputs, silva_taxonomy, gg_taxonomy, organelle_seqs,
                   open_handles, locals, error>>

\* The same, metaxa2.fasta missing: FileNotFoundError leaves the with blocks.
MitoParseMissing ==
    /\ pc = "mito_parse"
    /\ ~metaxa2_exists
    /\ error' = "FileNotFoundError"
    /\ pc' = "close_fasta"
    /\ log' = Append(log, Parsed("metaxa2_fasta"))
    /\ UNCHANGED <<part_000, inputs, silva_taxonomy, gg_taxonomy, organelle_seqs,
                   open_handles, locals>>

\* for i, entry in enumerate(...): the next record; i counts every record read.
MitoFor ==
    /\ pc = "mito_for"
    /\ i < Len(metaxa2_fasta)
    /\ entry' = ParseRecord(metaxa2_fasta[i + 1])
    /\ pc' = "mito_if"
    /\ log' = Append(log, ReadRecord("metaxa2_fasta", i + 1))
    /\ UNCHANGED <<part_000, inputs, silva_taxonomy, gg_taxonomy, organelle_seqs,
                   open_handles, i, specific_info, error>>

\* Faulty variant: the end of the mitochondria input goes unnoticed.
MitoForEnd_OffByOne ==
    /\ pc = "mito_for"
    /\ i > Len(metaxa2_fasta)
    /\ pc' = "chloro_parse"
    /\ UNCHANGED <<part_000, inputs, log, silva_taxonomy, gg_taxonomy, organelle_seqs,
                   open_handles, locals, error>>

\* The mitochondria loop is exhausted.
MitoForEnd ==
    /\ pc = "mito_for"
    /\ i >= Len(metaxa2_fasta)
    /\ pc' = "chloro_parse"
    /\ UNCHANGED <<part_000, inputs, log, silva_taxonomy, gg_taxonomy, organelle_seqs,
                   open_handles, locals, error>>

\* Faulty variant: the mapping rows are written without the FASTA entry.
MitoIfTrue_RowsOnly ==
    /\ pc = "mito_if"
    /\ MitoFilter(entry)
    /\ pc' = "mito_info"
    /\ UNCHANGED <<part_000, inputs, log, silva_taxonomy, gg_taxonomy, organelle_seqs,
                   open_handles, locals, error>>

\* if 'mitochondria' in entry.description or 'Mitochondria' in ...: taken
MitoIfTrue ==
    /\ pc = "mito_if"
    /\ MitoFilter(entry)
    /\ pc' = "mito_write_header"
    /\ UNCHANGED <<part_000, inputs, log, silva_taxonomy, gg_taxonomy, organelle_seqs,
                   open_handles, locals, error>>

\* The condition is false: on to the next record.
MitoIfFalse ==
    /\ pc = "mito_if"
    /\ ~MitoFilter(entry)
    /\ i' = i + 1
    /\ pc' = "mito_for"
    /\ UNCHANGED <<part_000, inputs, log, silva_taxonomy, gg_taxonomy, organelle_seqs,
                   open_handles, entry, specific_info, error>>

\* organelle_seqs.write(f'>metaxa2_mitochondria_{i}\n')
MitoWriteHeader ==
    /\ pc = "mito_write_header"
    /\ organelle_seqs' = organelle_seqs \o FastaHeaderLine(MitoId(i))
    /\ pc' = "mito_write_seq"
    /\ log' = Append(log, Wrote("organelle_seqs", "fasta_header", MitoId(i),
                             FastaHeaderLine(MitoId(i))))
    /\ UNCHANGED <<part_000, inputs, silva_taxonomy, gg_taxonomy, open_handles, locals, error>>

\* organelle_seqs.write(str(entry.seq + '\n'))
MitoWriteSeq ==
    /\ pc = "mito_write_seq"
    /\ organelle_seqs' = organelle_seqs \o FastaSeqLine(entry)
    /\ pc' = "mito_info"
    /\ log' = Append(log, Wrote("organelle_seqs", "fasta_seq", MitoId(i),
                             FastaSeqLine(entry)))
    /\ UNCHANGED <<part_000, inputs, silva_taxonomy, gg_taxonomy, open_handles, locals, error>>

\* specific_info = str(entry.description).split(';')[-1]
MitoInfo ==
    /\ pc = "mito_info"
    /\ specific_info' = MitoSpecificInfo(entry)
    /\ pc' = "mito_write_silva"
    /\ UNCHANGED <<part_000, inputs, log, silva_taxonomy, gg_taxonomy, organelle_seqs,
                   open_handles, i, entry, error>>

\* silva_taxonomy.write(f'metaxa2_mitochondria_{i}\t{silva_mitochondria_prefix}{specific_info}\n')
MitoWriteSilva ==
    /\ pc = "mito_write_silva"
    /\ silva_taxonomy' = silva_taxonomy \o
           TaxonomyRow(MitoId(i), silva_mitochondria_prefix, specific_info)
    /\ pc' = "mito_write_gg"
    /\ log' = Append(log, Wrote("silva_taxonomy", "row", MitoId(i),
                             TaxonomyRow(MitoId(i), silva_mitochondria_prefix, specific_info)))
    /\ UNCHANGED <<part_000, inputs, gg_taxonomy, organelle_seqs, open_handles, locals, error>>

\* Faulty variant: the Greengenes row is written with the Silva prefix.
MitoWriteGG_SilvaPrefix ==
    /\ pc = "mito_write_gg"
    /\ gg_taxonomy' = gg_taxonomy \o
           TaxonomyRow(MitoId(i), silva_mitochondria_prefix, specific_info)
    /\ i' = i + 1
    /\ pc' = "mito_for"
    /\ log' = Append(log, Wrote("gg_taxonomy", "row", MitoId(i),
                             TaxonomyRow(MitoId(i), silva_mitochondria_prefix, specific_info)))
    /\ UNCHANGED <<part_000, inputs, silva_taxonomy, organelle_seqs, open_handles,
                   entry, specific_info, error>>

\* gg_taxonomy.write(f'metaxa2_mitochondria_{i}\t{greengenes_mitochondria_prefix}{specific_info}\n')
MitoWriteGG ==
    /\ pc = "mito_write_gg"
    /\ gg_taxonomy' = gg_taxonomy \o
           TaxonomyRow(MitoId(i), greengenes_mitochondria_prefix, specific_info)
    /\ i' = i + 1
    /\ pc' = "mito_for"
    /\ log' = Append(log, Wrote("gg_taxonomy", "row", MitoId(i),
                             TaxonomyRow(MitoId(i), greengenes_mitochondria_prefix, specific_info)))
    /\ UNCHANGED <<part_000, inputs, silva_taxonomy, organelle_seqs, open_handles,
                   entry, specific_info, error>>

\* enumerate(SeqIO.parse(refs_dir + '/PhytoRef_with_taxonomy.fasta', 'fasta'))
ChloroParse ==
    /\ pc = "chloro_parse"
    /\ phytoref_exists
    /\ i' = 0
    /\ pc' = "chloro_for"
    /\ log' = Append(log, Parsed("phytoref_fasta"))
    /\ UNCHANGED <<part_000, inputs, silva_taxonomy, gg_taxonomy, organelle_seqs,
                   open_handles, entry, specific_info, error>>

\* The same, the PhytoRef file missing.
ChloroParseMissing ==
    /\ pc = "chloro_parse"
    /\ ~phytoref_exists
    /\ error' = "FileNotFoundError"
    /\ pc' = "close_fasta"
    /\ log' = Append(log, Parsed("phytoref_fasta"))
    /\ UNCHANGED <<part_000, inputs, silva_taxonomy, gg_taxonomy, organelle_seqs,
                   open_handles, locals>>

\* for i, entry in enumerate(...): the next chloroplast record.
ChloroFor ==
    /\ pc = "chloro_for"
    /\ i < Len(phytoref_fasta)
    /\ entry' = ParseRecord(phytoref_fasta[i + 1])
    /\ pc' = "chloro_if"
    /\ log' = Append(log, ReadRecord("phytoref_fasta", i + 1))
    /\ UNCHANGED <<part_000, inputs, silva_taxonomy, gg_taxonomy, organelle_seqs,
                   open_handles, i, specific_info, error>>

\* The chloroplast loop is exhausted: the with blocks are left normally.
ChloroForEnd ==
    /\ pc = "chloro_for"
    /\ i >= Len(phytoref_fasta)
    /\ pc' = "close_fasta"
    /\ UNCHANGED <<part_000, inputs, log, silva_taxonomy, gg_taxonomy, organelle_seqs,
                   open_handles, locals, error>>

\* if not 'XXXXXXXXXX' in entry.seq: taken
ChloroIfTrue ==
    /\ pc = "chloro_if"
    /\ ChloroFilter(entry)
    /\ pc' = "chloro_write_header"
    /\ UNCHANGED <<part_000, inputs, log, silva_taxonomy, gg_taxonomy, organelle_seqs,
                   open_handles, locals, error>>

\* The sequence holds the placeholder run: on to the next record.
ChloroIfFalse ==
    /\ pc = "chloro_if"
    /\ ~ChloroFilter(entry)
    /\ i' = i + 1
    /\ pc' = "chloro_for"
    /\ UNCHANGED <<part_000, inputs, log, silva_taxonomy, gg_taxonomy, organelle_seqs,
                   open_handles, entry, specific_info, error>>

\* organelle_seqs.write(f'>phytoref_chloroplast_{i}\n')
ChloroWriteHeader ==
    /\ pc = "chloro_write_header"
    /\ organelle_seqs' = organelle_seqs \o FastaHeaderLine(ChloroId(i))
    /\ pc' = "chloro_write_seq"
    /\ log' = Append(log, Wrote("organelle_seqs", "fasta_header", ChloroId(i),
                             FastaHeaderLine(ChloroId(i))))
    /\ UNCHANGED <<part_000, inputs, silva_taxonomy, gg_taxonomy, open_handles, locals, error>>

\* organelle_seqs.write(str(entry.seq + '\n'))
ChloroWriteSeq ==
    /\ pc = "chloro_write_seq"
    /\ organelle_seqs' = organelle_seqs \o FastaSeqLine(entry)
    /\ pc' = "chloro_info"
    /\ log' = Append(log, Wrote("organelle_seqs", "fasta_seq", ChloroId(i),
                             FastaSeqLine(entry)))
    /\ UNCHANGED <<part_000, inputs, silva_taxonomy, gg_taxonomy, open_handles, locals, error>>

\* specific_info = str(entry.description).split('|')[-1]
ChloroInfo ==
    /\ pc = "chloro_info"
    /\ specific_info' = ChloroSpecificInfo(entry)
    /\ pc' = "chloro_write_silva"
    /\ UNCHANGED <<part_000, inputs, log, silva_taxonomy, gg_taxonomy, organelle_seqs,
                   open_handles, i, entry, error>>

\* silva_taxonomy.write(f'phytoref_chloroplast_{i}\t{silva_chloroplast_prefix}{specific_info}\n')
ChloroWriteSilva ==
    /\ pc = "chloro_write_silva"
    /\ silva_taxonomy' = silva_taxonomy \o
           TaxonomyRow(ChloroId(i), silva_chloroplast_prefix, specific_info)
    /\ pc' = "chloro_write_gg"
    /\ log' = Append(log, Wrote("silva_taxonomy", "row", ChloroId(i),
                             TaxonomyRow(ChloroId(i), silva_chloroplast_prefix, specific_info)))
    /\ UNCHANGED <<part_000, inputs, gg_taxonomy, organelle_seqs, open_handles, locals, error>>

\* Faulty variant: the Greengenes row carries the mitochondria identifier.
ChloroWriteGG_MitoId ==
    /\ pc = "chloro_write_gg"
    /\ gg_taxonomy' = gg_taxonomy \o
           TaxonomyRow(MitoId(i), greengenes_chloroplast_prefix, specific_info)
    /\ i' = i + 1
    /\ pc' = "chloro_for"
    /\ log' = Append(log, Wrote("gg_taxonomy", "row", MitoId(i),
                             TaxonomyRow(MitoId(i), greengenes_chloroplast_prefix, specific_info)))
    /\ UNCHANGED <<part_000, inputs, silva_taxonomy, organelle_seqs, open_handles,
                   entry, specific_info, error>>

\* gg_taxonomy.write(f'phytoref_chloroplast_{i}\t{greengenes_chloroplast_prefix}{specific_info}\n')
ChloroWriteGG ==
    /\ pc = "chloro_write_gg"
    /\ gg_taxonomy' = gg_taxonomy \o
           TaxonomyRow(ChloroId(i), greengenes_chloroplast_prefix, specific_info)
    /\ i' = i + 1
    /\ pc' = "chloro_for"
    /\ log' = Append(log, Wrote("gg_taxonomy", "row", ChloroId(i),
                             TaxonomyRow(ChloroId(i),
                                         greengenes_chloroplast_prefix,
                                         specific_info)))
    /\ UNCHANGED <<part_000, inputs, silva_taxonomy, organelle_seqs, open_handles,
                   entry, specific_info, error>>

\* Faulty variant: on an exception the unfinished FASTA is emptied.
CloseFasta_Cleanup ==
    /\ pc = "close_fasta"
    /\ organelle_seqs' = IF error = "none" THEN organelle_seqs ELSE <<>>
    /\ open_handles' = open_handles \ {"organelle_seqs"}
    /\ pc' = "close_gg"
    /\ log' = Append(log, Closed("organelle_seqs"))
    /\ UNCHANGED <<part_000, inputs, silva_taxonomy, gg_taxonomy, locals, error>>

\* Leaving  with ... as organelle_seqs  (normally or by the exception).
CloseFasta ==
    /\ pc = "close_fasta"
    /\ open_handles' = open_handles \ {"organelle_seqs"}
    /\ pc' = "close_gg"
    /\ log' = Append(log, Closed("organelle_seqs"))
    /\ UNCHANGED <<part_000, inputs, silva_taxonomy, gg_taxonomy, organelle_seqs, locals, error>>

\* Faulty variant: the file is closed by a call at the end of the block,
\* which an exception skips.
CloseGG_NormalExitOnly ==
    /\ pc = "close_gg"
    /\ open_handles' = IF error = "none" THEN open_handles \ {"gg_taxonomy"}
                       ELSE open_handles
    /\ pc' = "close_silva"
    /\ log' = Append(log, Closed("gg_taxonomy"))
    /\ UNCHANGED <<part_000, inputs, silva_taxonomy, gg_taxonomy, organelle_seqs, locals, error>>

\* Leaving  with ... as gg_taxonomy.
CloseGG ==
    /\ pc = "close_gg"
    /\ open_handles' = open_handles \ {"gg_taxonomy"}
    /\ pc' = "close_silva"
    /\ log' = Append(log, Closed("gg_taxonomy"))
    /\ UNCHANGED <<part_000, inputs, silva_taxonomy, gg_taxonomy, organelle_seqs, locals, error>>

\* Leaving  with ... as silva_taxonomy: the cell ends, or the exception
\* reaches the caller.
CloseSilva ==
    /\ pc = "close_silva"
    /\ open_handles' = open_handles \ {"silva_taxonomy"}
    /\ pc' = IF error = "none" THEN "done" ELSE "raised"
    /\ log' = Append(log, Closed("silva_taxonomy"))
    /\ UNCHANGED <<part_000, inputs, silva_taxonomy, gg_taxonomy, organelle_seqs, locals, error>>

Next ==
    \/ OpenSilva \/ OpenGG \/ WriteSilvaHeader \/ WriteGGHeader \/ OpenFasta
    \/ MitoParse \/ MitoParseMissing \/ MitoFor \/ MitoForEnd
    \/ MitoIfTrue \/ MitoIfFalse
    \/ MitoWriteHeader \/ MitoWriteSeq \/ MitoInfo \/ MitoWriteSilva \/ MitoWriteGG
    \/ ChloroParse \/ ChloroParseMissing \/ ChloroFor \/ ChloroForEnd
    \/ ChloroIfTrue \/ ChloroIfFalse
    \/ ChloroWriteHeader \/ ChloroWriteSeq \/ ChloroInfo \/ ChloroWriteSilva
    \/ ChloroWriteGG
    \/ CloseFasta \/ CloseGG \/ CloseSilva

Spec == Init /\ [][Next]_vars

(***************************************************************************)
(* Input and output faults.  Any open, read or write of the cell may       *)
(* raise; nothing in the cell catches the exception, so control leaves the *)
(* with blocks entered so far, innermost first.                            *)
(***************************************************************************)
FaultPoints ==
    { "open_silva", "open_gg", "header_silva", "header_gg", "open_fasta",
      "mito_parse", "mito_for", "mito_write_header", "mito_write_seq",
      "mito_write_silva", "mito_write_gg",
      "chloro_parse", "chloro_for", "chloro_write_header",
      "chloro_write_seq", "chloro_write_silva", "chloro_write_gg" }

\* Where control goes when the statement at position at raises.
Unwind(at) ==
    IF at = "open_silva" THEN "raised"
    ELSE IF at = "open_gg" THEN "close_silva"
    ELSE IF at \in {"header_silva", "header_gg", "open_fasta"} THEN "close_gg"
    ELSE "close_fasta"

\* The exception a failing statement raises: a record that cannot be parsed
\* is a ValueError, a failing open or write an OSError.
Raised(at) == IF at \in {"mito_for", "chloro_for"} THEN "ValueError" ELSE "OSError"

\* The statement at pc fails: nothing is written, truncated or read.
Raise ==
    /\ pc \in FaultPoints
    /\ error' = Raised(pc)
    /\ pc' = Unwind(pc)
    /\ log' = Append(log, Event("raise", "", pc, <<>>, <<>>, 0))
    /\ UNCHANGED <<part_000, inputs, silva_taxonomy, gg_taxonomy, organelle_seqs,
                   open_handles, locals>>

\* The fault runs draw their records from one retained and one dropped
\* record of each source.
FaultMitoRecords ==
    { r \in MitoRecords :
        \/ HasSuffix(r.description, <<"s", "a", "p", "i", "e", "n", "s">>)
        \/ HasSuffix(r.description, <<";", "y">>) }

FaultChloroRecords ==
    { r \in ChloroRecords :
        \/ HasPrefix(r.description, <<"P", "1">>)
        \/ HasPrefix(r.description, <<"P", "2">>) }

InitFaults ==
    /\ Init
    /\ \A k \in 1..Len(metaxa2_fasta) : metaxa2_fasta[k] \in FaultMitoRecords
    /\ \A k \in 1..Len(phytoref_fasta) : phytoref_fasta[k] \in FaultChloroRecords

NextFaults == Next \/ Raise

SpecFaults == InitFaults /\ [][NextFaults]_vars

\* The cell keeps running: the interpreter always executes the statement
\* at hand.  A fault may happen, none has to.
SpecTerminating == InitFaults /\ [][NextFaults]_vars /\ WF_vars(Next)


(***************************************************************************)
(* The cells after the supplementation cell.  The kernel runs one cell at  *)
(* a time, in the order of the notebook, and stops at a cell that raises:  *)
(* a later cell starts when the supplementation cell has ended normally.   *)
(***************************************************************************)
Imported(file, text) == Event("import", file, "", <<>>, text, 0)

\* Faulty variant: the import is placed inside the with blocks, after the
\* chloroplast loop.
ImportOrganelleSeqs_InsideWith ==
    /\ pc = "close_fasta"
    /\ error = "none"
    /\ Performed("import", "organelle_seqs") = 0
    /\ log' = Append(log, Imported("organelle_seqs", organelle_seqs))
    /\ UNCHANGED <<part_000, inputs, silva_taxonomy, gg_taxonomy, organelle_seqs,
                   open_handles, pc, locals, error>>

\* organelle_seqs = Artifact.import_data('FeatureData[Sequence]',
\*                      ... 'organelle_sequences.fasta')
ImportOrganelleSeqs ==
    /\ pc = "done"
    /\ Performed("import", "organelle_seqs") = 0
    /\ log' = Append(log, Imported("organelle_seqs", organelle_seqs))
    /\ UNCHANGED <<part_000, inputs, silva_taxonomy, gg_taxonomy, organelle_seqs,
                   open_handles, pc, locals, error>>

\* silva_organelle_taxonomy = Artifact.import_data('FeatureData[Taxonomy]',
\*                                ... 'silva_organelle_taxonomy.tsv')
ImportSilvaOrganelleTaxonomy ==
    /\ pc = "done"
    /\ Performed("import", "organelle_seqs") = 1
    /\ Performed("import", "silva_taxonomy") = 0
    /\ log' = Append(log, Imported("silva_taxonomy", silva_taxonomy))
    /\ UNCHANGED <<part_000, inputs, silva_taxonomy, gg_taxonomy, organelle_seqs,
                   open_handles, pc, locals, error>>

\* greengenes_organelle_taxonomy = Artifact.import_data(
\*     'FeatureData[Taxonomy]', ... 'greengenes_organelle_taxonomy.tsv')
ImportGreengenesOrganelleTaxonomy ==
    /\ pc = "done"
    /\ Performed("import", "silva_taxonomy") = 1
    /\ Performed("import", "gg_taxonomy") = 0
    /\ log' = Append(log, Imported("gg_taxonomy", gg_taxonomy))
    /\ UNCHANGED <<part_000, inputs, silva_taxonomy, gg_taxonomy, organelle_seqs,
                   open_handles, pc, locals, error>>

NextNotebook ==
    \/ Next
    \/ ImportOrganelleSeqs
    \/ ImportSilvaOrganelleTaxonomy
    \/ ImportGreengenesOrganelleTaxonomy

SpecNotebook == Init /\ [][NextNotebook]_vars

(***************************************************************************)
(* Running the cell a second time in the same session.  The output files   *)
(* hold what the earlier run left, the names i, entry and specific_info    *)
(* keep their last values, and the inputs are the same files, or others,   *)
(* or metaxa2.fasta has been removed.                                      *)
(***************************************************************************)
\* What the earlier run left in an output file.
Left(file, text) == Event("left", file, "", <<>>, text, 0)

DropFirst(xs) == IF xs = <<>> THEN <<>> ELSE Tail(xs)

Rerun ==
    /\ pc \in {"done", "raised"}
    /\ Performed("rerun", "") = 0
    /\ \/ UNCHANGED inputs
       \/ /\ metaxa2_exists' = TRUE
          /\ metaxa2_fasta' = DropFirst(metaxa2_fasta)
          /\ phytoref_exists' = TRUE
          /\ phytoref_fasta' = DropFirst(phytoref_fasta)
       \/ /\ metaxa2_exists' = FALSE
          /\ metaxa2_fasta' = <<>>
          /\ UNCHANGED <<phytoref_exists, phytoref_fasta>>
    /\ log' = log \o
           << Left("silva_taxonomy", silva_taxonomy),
              Left("gg_taxonomy", gg_taxonomy),
              Left("organelle_seqs", organelle_seqs),
              Event("rerun", "", IF inputs' = inputs THEN "same" ELSE "other",
                    <<>>, <<>>, 0) >>
    /\ pc' = "open_silva"
    /\ error' = "none"
    /\ UNCHANGED <<part_000, silva_taxonomy, gg_taxonomy, organelle_seqs,
                   open_handles, locals>>

NextRerun == Next \/ Rerun

SpecRerun == Init /\ [][NextRerun]_vars

(***************************************************************************)
(* Reading the output files back.                                          *)
(***************************************************************************)
Front(xs) == SubSeq(xs, 1, Len(xs) - 1)

\* The lines of a text, each without its line break.
Lines(t) ==
    LET p == Split(t, "\n") IN IF Last(p) = <<>> THEN Front(p) ELSE p

IsHeaderLine(l) == HasPrefix(l, <<">">>)

\* The data rows of a taxonomy mapping: every line after the first.
DataRows(t) == Tail(Lines(t))

\* The identifier of a mapping row: the text before its first tab.
RowId(row) == Head(Split(row, "\t"))

RowIds(t) == LET rows == DataRows(t) IN [k \in 1..Len(rows) |-> RowId(rows[k])]

\* The header lines of a FASTA text, and the identifiers they carry.
FastaHeaders(t) == SelectSeq(Lines(t), IsHeaderLine)

FastaIds(t) == LET hs == FastaHeaders(t) IN [k \in 1..Len(hs) |-> Tail(hs[k])]

IsMito(s) == HasPrefix(s, <<"m", "e", "t", "a", "x", "a", "2", "_", "m", "i", "t", "o",
                            "c", "h", "o", "n", "d", "r", "i", "a", "_">>)

IsChloro(s) == HasPrefix(s, <<"p", "h", "y", "t", "o", "r", "e", "f", "_", "c", "h", "l",
                              "o", "r", "o", "p", "l", "a", "s", "t", "_">>)

Count(xs, P(_)) == Len(SelectSeq(xs, P))

SeqToSet(xs) == { xs[k] : k \in 1..Len(xs) }

Completed == pc = "done"

\* Retained records, stated on the stored records.
MitoMatches(r) ==
    \/ Contains(r.description, <<"m", "i", "t", "o", "c", "h", "o", "n", "d", "r", "i", "a">>)
    \/ Contains(r.description, <<"M", "i", "t", "o", "c", "h", "o", "n", "d", "r", "i", "a">>)

ChloroClean(r) == ~Contains(Join(r.lines), <<"X", "X", "X", "X", "X", "X", "X", "X", "X", "X">>)

\* The positions (from 1) of the retained records, ascending.
Positions(n) == [k \in 1..n |-> k]

MitoKeptAt(k) == MitoMatches(metaxa2_fasta[k])

ChloroKeptAt(k) == ChloroClean(phytoref_fasta[k])

MitoKeptSeq == SelectSeq(Positions(Len(metaxa2_fasta)), MitoKeptAt)

ChloroKeptSeq == SelectSeq(Positions(Len(phytoref_fasta)), ChloroKeptAt)

\* The identifier expected for the record at position k (from 1).
ExpectedMitoId(k) == <<"m", "e", "t", "a", "x", "a", "2", "_", "m", "i", "t", "o",
                       "c", "h", "o", "n", "d", "r", "i", "a", "_">> \o str(k - 1)

ExpectedChloroId(k) == <<"p", "h", "y", "t", "o", "r", "e", "f", "_", "c", "h", "l",
                         "o", "r", "o", "p", "l", "a", "s", "t", "_">> \o str(k - 1)

ExpectedIds ==
    LET mk == MitoKeptSeq
        ck == ChloroKeptSeq
    IN [j \in 1..Len(mk) |-> ExpectedMitoId(mk[j])] \o
       [j \in 1..Len(ck) |-> ExpectedChloroId(ck[j])]

\* The last field of d after splitting on c: what follows the last c.
LastField(d, c) ==
    LET at == { k \in 1..Len(d) : d[k] = c }
    IN IF at = {} THEN d
       ELSE SubSeq(d, (CHOOSE p \in at : \A q \in at : q <= p) + 1, Len(d))

ExpectedSpecies ==
    LET mk == MitoKeptSeq
        ck == ChloroKeptSeq
    IN [j \in 1..Len(mk) |-> LastField(metaxa2_fasta[mk[j]].description, ";")] \o
       [j \in 1..Len(ck) |-> LastField(phytoref_fasta[ck[j]].description, "|")]

ExpectedSeqs ==
    LET mk == MitoKeptSeq
        ck == ChloroKeptSeq
    IN [j \in 1..Len(mk) |-> Join(metaxa2_fasta[mk[j]].lines)] \o
       [j \in 1..Len(ck) |-> Join(phytoref_fasta[ck[j]].lines)]


(***************************************************************************)
(* Properties of the supplementer.                                         *)
(***************************************************************************)

\* C1: after a complete run, each taxonomy mapping holds as many data rows
\* (header excluded) as the combined FASTA holds entries, in total and per
\* category (metaxa2_mitochondria_ rows and entries, phytoref_chloroplast_
\* rows and entries).
C1_RowsEqualEntries ==
    Completed =>
        LET entries == FastaIds(organelle_seqs)
        IN \A t \in {silva_taxonomy, gg_taxonomy} :
               LET rows == RowIds(t)
               IN /\ Len(rows) = Len(entries)
                  /\ Count(rows, IsMito) = Count(entries, IsMito)
                  /\ Count(rows, IsChloro) = Count(entries, IsChloro)
                  /\ Count(rows, IsMito) + Count(rows, IsChloro) = Len(rows)

C1_Witness ==
    /\ Completed
    /\ Count(FastaIds(organelle_seqs), IsMito) = 2
    /\ Count(FastaIds(organelle_seqs), IsChloro) = 1
    /\ Len(DataRows(silva_taxonomy)) = 3
    /\ Len(phytoref_fasta) = 2

\* C2: a record of the mitochondria source is written to the three outputs
\* if and only if its description contains 'mitochondria' or 'Mitochondria'
\* (case-sensitive); a record with neither is in none of the three files,
\* and dropping it raises no error.
C2_MitoFilter ==
    /\ Completed =>
          LET fasta == SeqToSet(FastaIds(organelle_seqs))
              silva == SeqToSet(RowIds(silva_taxonomy))
              gg == SeqToSet(RowIds(gg_taxonomy))
          IN \A k \in 1..Len(metaxa2_fasta) :
                 LET id == <<"m", "e", "t", "a", "x", "a", "2", "_", "m", "i", "t", "o",
                             "c", "h", "o", "n", "d", "r", "i", "a", "_">> \o str(k - 1)
                     d == metaxa2_fasta[k].description
                     match ==
                         \/ Contains(d, <<"m", "i", "t", "o", "c", "h", "o", "n", "d", "r", "i", "a">>)
                         \/ Contains(d, <<"M", "i", "t", "o", "c", "h", "o", "n", "d", "r", "i", "a">>)
                 IN IF match
                    THEN id \in fasta /\ id \in silva /\ id \in gg
                    ELSE id \notin fasta /\ id \notin silva /\ id \notin gg
    /\ error # "none" => ~metaxa2_exists \/ ~phytoref_exists
    /\ metaxa2_exists /\ phytoref_exists => pc # "raised"

C2_Witness ==
    /\ Completed
    /\ Len(metaxa2_fasta) = 2
    /\ Contains(metaxa2_fasta[1].description, <<"M", "I", "T", "O", "C", "H", "O", "N", "D", "R", "I", "A">>)
    /\ ~MitoMatches(metaxa2_fasta[1])
    /\ MitoMatches(metaxa2_fasta[2])
    /\ FastaIds(organelle_seqs)[1] = <<"m", "e", "t", "a", "x", "a", "2", "_", "m", "i", "t", "o",
                                       "c", "h", "o", "n", "d", "r", "i", "a", "_", "1">>

\* C3: a record of the chloroplast source is written to the three outputs
\* if and only if its sequence does not contain 'XXXXXXXXXX'; a record whose
\* sequence contains it anywhere is absent from the FASTA and both mappings.
C3_ChloroFilter ==
    Completed =>
        LET fasta == SeqToSet(FastaIds(organelle_seqs))
            silva == SeqToSet(RowIds(silva_taxonomy))
            gg == SeqToSet(RowIds(gg_taxonomy))
        IN \A k \in 1..Len(phytoref_fasta) :
               LET id == <<"p", "h", "y", "t", "o", "r", "e", "f", "_", "c", "h", "l",
                           "o", "r", "o", "p", "l", "a", "s", "t", "_">> \o str(k - 1)
                   placeholder ==
                       Contains(Join(phytoref_fasta[k].lines),
                                <<"X", "X", "X", "X", "X", "X", "X", "X", "X", "X">>)
               IN IF placeholder
                  THEN id \notin fasta /\ id \notin silva /\ id \notin gg
                  ELSE id \in fasta /\ id \in silva /\ id \in gg

C3_Witness ==
    /\ Completed
    /\ Len(phytoref_fasta) = 2
    /\ Join(phytoref_fasta[1].lines) = <<"A", "C", "G", "T", "X", "X", "X", "X", "X", "X", "X", "X",
                                         "X", "X", "A", "C", "G", "T">>
    /\ ChloroClean(phytoref_fasta[2])
    /\ <<"p", "h", "y", "t", "o", "r", "e", "f", "_", "c", "h", "l",
         "o", "r", "o", "p", "l", "a", "s", "t", "_", "1">> \in SeqToSet(RowIds(gg_taxonomy))
    /\ <<"p", "h", "y", "t", "o", "r", "e", "f", "_", "c", "h", "l",
         "o", "r", "o", "p", "l", "a", "s", "t", "_", "0">> \notin SeqToSet(RowIds(gg_taxonomy))

\* C4: the combined FASTA holds exactly one entry per retained record and no
\* other entry; every mitochondria entry precedes every chloroplast entry,
\* and within a category the entries keep the order of the input file.
C4_FastaEntriesInOrder ==
    Completed =>
        LET ls == Lines(organelle_seqs)
            mitos == Len(MitoKeptSeq)
            seqs == ExpectedSeqs
        IN /\ Len(ls) = 2 * Len(seqs)
           /\ \A j \in 1..Len(seqs) :
                 /\ IsHeaderLine(ls[2 * j - 1])
                 /\ IsMito(Tail(ls[2 * j - 1])) <=> j <= mitos
                 /\ IsChloro(Tail(ls[2 * j - 1])) <=> j > mitos
                 /\ ls[2 * j] = seqs[j]

C4_Witness ==
    /\ Completed
    /\ Len(MitoKeptSeq) = 2
    /\ ExpectedSeqs[1] # ExpectedSeqs[2]
    /\ Len(ChloroKeptSeq) = 1
    /\ Len(phytoref_fasta) = 2
    /\ Len(Lines(organelle_seqs)) = 6

\* C5: the index in a retained record's identifier is the 0-based position
\* of the record among all records of its own input file, filtered-out
\* records included: indices can have gaps, and the chloroplast count starts
\* at 0 whatever number of mitochondria records was read.
C5_IndexIsPosition ==
    Completed =>
        LET ids == ExpectedIds
        IN /\ FastaIds(organelle_seqs) = ids
           /\ RowIds(silva_taxonomy) = ids
           /\ RowIds(gg_taxonomy) = ids

C5_Witness ==
    /\ Completed
    /\ Len(metaxa2_fasta) = 2
    /\ MitoKeptSeq = <<2>>
    /\ ChloroKeptSeq = <<1>>
    /\ FastaIds(organelle_seqs) =
          <<<<"m", "e", "t", "a", "x", "a", "2", "_", "m", "i", "t", "o",
              "c", "h", "o", "n", "d", "r", "i", "a", "_", "1">>, <<"p", "h", "y", "t", "o", "r", "e", "f", "_", "c", "h", "l",
                                         "o", "r", "o", "p", "l", "a", "s", "t", "_", "0">>>>

\* C6: the species field written for a retained record is the last field of
\* its description after splitting on ';' (mitochondria) or '|'
\* (chloroplast), copied verbatim: no trimming, no case change, and nothing
\* but the description decides it.
C6_SpeciesIsLastField ==
    /\ pc \in {"mito_write_silva", "mito_write_gg"} =>
          specific_info = LastField(entry.description, ";")
    /\ pc \in {"chloro_write_silva", "chloro_write_gg"} =>
          specific_info = LastField(entry.description, "|")
    /\ Completed =>
          LET species == ExpectedSpecies
          IN \A t \in {silva_taxonomy, gg_taxonomy} :
                 LET rows == DataRows(t)
                 IN /\ Len(rows) = Len(species)
                    /\ \A j \in 1..Len(rows) :
                           HasSuffix(rows[j], <<";", " ", "s", "_", "_">> \o species[j])

C6_Witness ==
    /\ Completed
    /\ Len(metaxa2_fasta) = 2
    /\ metaxa2_fasta[2].description = <<"m", "i", "t", "o", "c", "h", "o", "n", "d", "r", "i", "a",
                                        ";", " ", "x">>
    /\ ExpectedSpecies = <<<<" ", "x">>, <<"Z", " ", "m">>>>
    /\ HasSuffix(DataRows(silva_taxonomy)[1], <<"g", "_", "_", "M", "i", "t", "o", "c", "h", "o", "n", "d",
                                                "r", "i", "a", ";", " ", "s", "_", "_", " ", "x">>)

\* The text of a taxonomy mapping under a convention's two prefixes.
ExpectedMapping(mitoPrefix, chloroPrefix) ==
    LET ids == ExpectedIds
        species == ExpectedSpecies
        mitos == Len(MitoKeptSeq)
    IN <<"F", "e", "a", "t", "u", "r", "e", " ", "I", "D", "\t", "T", "a", "x", "o", "n", "\n">> \o
       Join([j \in 1..Len(ids) |->
               ids[j] \o <<"\t">> \o
               (IF j <= mitos THEN mitoPrefix ELSE chloroPrefix) \o
               species[j] \o <<"\n">>])

\* C7: for every retained record each taxonomy mapping receives exactly one
\* row  synthetic_id TAB prefix species_field NEWLINE,  the prefix being the
\* file's convention prefix for the record's category (Silva d__Bacteria...,
\* Greengenes k__Bacteria...); the two rows of one record share identifier
\* and species field.  A first mitochondria record described
\* 'accession123;Eukaryota;...;Mitochondria;Homo sapiens' yields the Silva
\* row 'metaxa2_mitochondria_0<TAB>d__Bacteria; ...; s__Homo sapiens'.
C7_MappingRows ==
    /\ HasPrefix(silva_mitochondria_prefix, <<"d", "_", "_", "B", "a", "c", "t", "e", "r", "i", "a", ";", " ">>)
    /\ HasPrefix(silva_chloroplast_prefix, <<"d", "_", "_", "B", "a", "c", "t", "e", "r", "i", "a", ";", " ">>)
    /\ HasPrefix(greengenes_mitochondria_prefix, <<"k", "_", "_", "B", "a", "c", "t", "e", "r", "i", "a", ";", " ">>)
    /\ HasPrefix(greengenes_chloroplast_prefix, <<"k", "_", "_", "B", "a", "c", "t", "e", "r", "i", "a", ";", " ">>)
    /\ Completed =>
          /\ silva_taxonomy =
                ExpectedMapping(silva_mitochondria_prefix, silva_chloroplast_prefix)
          /\ gg_taxonomy =
                ExpectedMapping(greengenes_mitochondria_prefix,
                                greengenes_chloroplast_prefix)
          /\ Len(DataRows(silva_taxonomy)) = Len(MitoKeptSeq) + Len(ChloroKeptSeq)
          /\ Len(DataRows(gg_taxonomy)) = Len(MitoKeptSeq) + Len(ChloroKeptSeq)
    /\ ( /\ Completed
         /\ metaxa2_fasta # <<>>
         /\ metaxa2_fasta[1].description =
               <<"a", "c", "c", "e", "s", "s", "i", "o", "n", "1", "2", "3",
                 ";", "E", "u", "k", "a", "r", "y", "o", "t", "a", ";", ".",
                 ".", ".", ";", "M", "i", "t", "o", "c", "h", "o", "n", "d",
                 "r", "i", "a", ";", "H", "o", "m", "o", " ", "s", "a", "p",
                 "i", "e", "n", "s">> ) =>
          /\ HasPrefix(DataRows(silva_taxonomy)[1],
                       <<"m", "e", "t", "a", "x", "a", "2", "_", "m", "i", "t", "o",
                         "c", "h", "o", "n", "d", "r", "i", "a", "_", "0", "\t", "d",
                         "_", "_", "B", "a", "c", "t", "e", "r", "i", "a", ";", " ">>)
          /\ HasSuffix(DataRows(silva_taxonomy)[1], <<";", " ", "s", "_", "_", "H", "o", "m", "o", " ", "s", "a",
                                                      "p", "i", "e", "n", "s">>)

C7_Witness ==
    /\ Completed
    /\ Len(metaxa2_fasta) = 2
    /\ metaxa2_fasta[1].description =
          <<"a", "c", "c", "e", "s", "s", "i", "o", "n", "1", "2", "3",
            ";", "E", "u", "k", "a", "r", "y", "o", "t", "a", ";", ".",
            ".", ".", ";", "M", "i", "t", "o", "c", "h", "o", "n", "d",
            "r", "i", "a", ";", "H", "o", "m", "o", " ", "s", "a", "p",
            "i", "e", "n", "s">>
    /\ Len(ChloroKeptSeq) = 2
    /\ Len(DataRows(gg_taxonomy)) = 3
    /\ HasPrefix(DataRows(gg_taxonomy)[1], <<"m", "e", "t", "a", "x", "a", "2", "_", "m", "i", "t", "o",
                                             "c", "h", "o", "n", "d", "r", "i", "a", "_", "0", "\t", "k",
                                             "_", "_", "B", "a", "c", "t", "e", "r", "i", "a", ";", " ">>)

IsTaxonomyHeader(l) == l = <<"F", "e", "a", "t", "u", "r", "e", " ", "I", "D", "\t", "T",
                             "a", "x", "o", "n">>

\* C8: after a complete run the first line of each taxonomy mapping is the
\* header row 'Feature ID<TAB>Taxon'; it occurs exactly once per file, before
\* every data row, also when no record is retained.
C8_HeaderOnceAndFirst ==
    Completed =>
        \A t \in {silva_taxonomy, gg_taxonomy} :
            LET ls == Lines(t)
            IN /\ ls # <<>>
               /\ IsTaxonomyHeader(ls[1])
               /\ Count(ls, IsTaxonomyHeader) = 1
               /\ Len(ls) = 1 + Len(MitoKeptSeq) + Len(ChloroKeptSeq)

C8_Witness ==
    /\ Completed
    /\ Len(metaxa2_fasta) = 2
    /\ Len(phytoref_fasta) = 1
    /\ MitoKeptSeq = <<>>
    /\ ChloroKeptSeq = <<>>
    /\ silva_taxonomy = <<"F", "e", "a", "t", "u", "r", "e", " ", "I", "D", "\t", "T",
                          "a", "x", "o", "n", "\n">>
    /\ gg_taxonomy = <<"F", "e", "a", "t", "u", "r", "e", " ", "I", "D", "\t", "T",
                       "a", "x", "o", "n", "\n">>

\* C9: after a complete run the identifiers of the Silva mapping, of the
\* Greengenes mapping and of the FASTA headers are one and the same sequence:
\* every identifier with a FASTA entry has exactly one row in each mapping,
\* and conversely.
C9_SameIdentifierSequence ==
    Completed =>
        LET ids == FastaIds(organelle_seqs)
            silva == RowIds(silva_taxonomy)
            gg == RowIds(gg_taxonomy)
        IN /\ silva = ids
           /\ gg = ids
           /\ \A id \in SeqToSet(ids) \cup SeqToSet(silva) \cup SeqToSet(gg) :
                 /\ Cardinality({ k \in 1..Len(ids) : ids[k] = id }) = 1
                 /\ Cardinality({ k \in 1..Len(silva) : silva[k] = id }) = 1
                 /\ Cardinality({ k \in 1..Len(gg) : gg[k] = id }) = 1

C9_Witness ==
    /\ Completed
    /\ Len(FastaIds(organelle_seqs)) = 3
    /\ RowIds(gg_taxonomy) =
          <<<<"m", "e", "t", "a", "x", "a", "2", "_", "m", "i", "t", "o",
              "c", "h", "o", "n", "d", "r", "i", "a", "_", "0">>, <<"p", "h", "y", "t", "o", "r", "e", "f", "_", "c", "h", "l",
                                         "o", "r", "o", "p", "l", "a", "s", "t", "_", "0">>,
            <<"p", "h", "y", "t", "o", "r", "e", "f", "_", "c", "h", "l",
              "o", "r", "o", "p", "l", "a", "s", "t", "_", "1">>>>

\* The text of the combined FASTA.
ExpectedFasta ==
    LET ids == ExpectedIds
        seqs == ExpectedSeqs
    IN Join([j \in 1..Len(ids) |->
               <<">">> \o ids[j] \o <<"\n">> \o seqs[j] \o <<"\n">>])

\* C10: each retained record contributes exactly two lines to the combined
\* FASTA: '>' and its synthetic identifier, then one line with the record's
\* whole sequence unchanged, however many input lines it spanned; the
\* description is not copied into the FASTA.
C10_TwoLinesPerRecord ==
    Completed =>
        LET ids == ExpectedIds
            seqs == ExpectedSeqs
            ls == Lines(organelle_seqs)
        IN /\ organelle_seqs = ExpectedFasta
           /\ Len(ls) = 2 * Len(ids)
           /\ \A j \in 1..Len(ids) :
                 /\ ls[2 * j - 1] = <<">">> \o ids[j]
                 /\ ls[2 * j] = seqs[j]

C10_Witness ==
    /\ Completed
    /\ Len(metaxa2_fasta) = 2
    /\ Len(metaxa2_fasta[2].lines) = 2
    /\ MitoKeptSeq = <<1, 2>>
    /\ Lines(organelle_seqs)[3] = <<">", "m", "e", "t", "a", "x", "a", "2", "_", "m", "i", "t",
                                    "o", "c", "h", "o", "n", "d", "r", "i", "a", "_", "1">>
    /\ Lines(organelle_seqs)[4] = <<"A", "C", "G", "T">>
    /\ Len(Lines(organelle_seqs)) = 4

\* C11: an input collection without records, or with all of its records
\* filtered out, raises no error and contributes no FASTA entry and no row
\* to either mapping; with both collections empty the complete run leaves
\* an empty combined FASTA and mappings holding the header row only.
C11_EmptyInputs ==
    LET mk == MitoKeptSeq
        ck == ChloroKeptSeq
    IN /\ metaxa2_exists /\ phytoref_exists /\ (mk = <<>> \/ ck = <<>>)
          => error = "none" /\ pc # "raised"
       /\ Completed /\ (mk = <<>> \/ ck = <<>>) =>
             LET ids == <<FastaIds(organelle_seqs), RowIds(silva_taxonomy),
                          RowIds(gg_taxonomy)>>
             IN \A f \in 1..3 :
                    /\ mk = <<>> => Count(ids[f], IsMito) = 0
                    /\ ck = <<>> => Count(ids[f], IsChloro) = 0
                    /\ Len(ids[f]) = Len(mk) + Len(ck)
       /\ Completed /\ metaxa2_fasta = <<>> /\ phytoref_fasta = <<>> =>
             /\ organelle_seqs = <<>>
             /\ silva_taxonomy = TaxonomyHeader
             /\ gg_taxonomy = TaxonomyHeader

C11_Witness ==
    /\ Completed
    /\ metaxa2_fasta = <<>>
    /\ Len(phytoref_fasta) = 2
    /\ ChloroKeptSeq = <<>>
    /\ organelle_seqs = <<>>
    /\ Len(Lines(silva_taxonomy)) = 1

\* C14: when an input file is missing the run never completes normally: the
\* only end it can reach is the raised state with FileNotFoundError set
\* (the error is not caught); each input is opened at most once (no retry);
\* no record of the missing file is read, and when metaxa2.fasta is the
\* missing one the chloroplast input is not even opened.
C14_MissingInput ==
    LET missing == ~metaxa2_exists \/ ~phytoref_exists
    IN /\ Performed("parse", "metaxa2_fasta") <= 1
       /\ Performed("parse", "phytoref_fasta") <= 1
       /\ missing => pc # "done"
       /\ missing /\ pc = "raised" => error = "FileNotFoundError"
       /\ ~metaxa2_exists =>
             /\ Performed("read", "metaxa2_fasta") = 0
             /\ Performed("parse", "phytoref_fasta") = 0
             /\ Performed("read", "phytoref_fasta") = 0
             /\ Performed("parse", "metaxa2_fasta") = 1
                   => error = "FileNotFoundError"
       /\ ~phytoref_exists =>
             /\ Performed("read", "phytoref_fasta") = 0
             /\ Performed("parse", "phytoref_fasta") = 1
                   => error = "FileNotFoundError"

C14_Witness ==
    /\ pc = "raised"
    /\ error = "FileNotFoundError"
    /\ metaxa2_exists
    /\ ~phytoref_exists
    /\ Performed("read", "metaxa2_fasta") = 2
    /\ Performed("parse", "phytoref_fasta") = 1

\* C19: the species text reaches the mapping rows unquoted and unescaped:
\* when the last ';'-field (mitochondria) or '|'-field (chloroplast) of a
\* retained record's description contains a tab, the record's row in each
\* mapping ends with that text unchanged, and so splits on tabs into more
\* than two fields (two plus the tabs of the species text).
C19_TabPassedThrough ==
    Completed =>
        LET species == ExpectedSpecies
            IsTab(c) == c = "\t"
        IN \A t \in {silva_taxonomy, gg_taxonomy} :
               LET rows == DataRows(t)
               IN /\ Len(rows) = Len(species)
                  /\ \A j \in 1..Len(species) :
                         LET tabs == Len(SelectSeq(species[j], IsTab))
                         IN tabs > 0 =>
                                /\ HasSuffix(rows[j], species[j])
                                /\ Len(Split(rows[j], "\t")) = 2 + tabs
                                /\ Len(Split(rows[j], "\t")) > 2

C19_Witness ==
    /\ Completed
    /\ Len(MitoKeptSeq) = 1
    /\ Len(ChloroKeptSeq) = 1
    /\ Contains(ExpectedSpecies[1], <<"\t">>)
    /\ Contains(ExpectedSpecies[2], <<"\t">>)
    /\ \A t \in {silva_taxonomy, gg_taxonomy} :
           /\ Len(DataRows(t)) = 2
           /\ Len(Split(DataRows(t)[1], "\t")) = 3
           /\ Len(Split(DataRows(t)[2], "\t")) = 3

OutputFiles == {"silva_taxonomy", "gg_taxonomy", "organelle_seqs"}

\* The present text of an output file.
Content(file) ==
    CASE file = "silva_taxonomy" -> silva_taxonomy
      [] file = "gg_taxonomy" -> gg_taxonomy
      [] file = "organelle_seqs" -> organelle_seqs

\* What has been written to a file since it was last opened, in order.
Written(file) ==
    LET opens == { k \in 1..Len(log) :
                     log[k].op = "open" /\ log[k].file = file }
        from == IF opens = {} THEN 0
                ELSE CHOOSE k \in opens : \A q \in opens : q <= k
        IsWrite(e) == e.op = "write" /\ e.file = file
        ws == SelectSeq(SubSeq(log, from + 1, Len(log)), IsWrite)
    IN Join([k \in 1..Len(ws) |-> ws[k].text])

\* C15: a failure leaves the output files as they are: once an exception
\* is on its way (and after it has reached the caller) every output file
\* opened by the run holds exactly what was written to it before the
\* failure, and a file not yet opened holds what it held before the run.
\* When the chloroplast input cannot be opened after the mitochondria pass,
\* the files hold the headers and every mitochondria entry and row, and no
\* chloroplast entry.
C15_NoCleanup ==
    /\ error # "none" =>
          \A f \in OutputFiles :
              IF Performed("open", f) > 0
              THEN Content(f) = Written(f)
              ELSE Content(f) \in PriorContents
    /\ pc = "raised" /\ error = "FileNotFoundError" /\ metaxa2_exists =>
          LET fasta == FastaIds(organelle_seqs)
              mitos == Len(MitoKeptSeq)
          IN /\ ~phytoref_exists
             /\ silva_taxonomy =
                   ExpectedMapping(silva_mitochondria_prefix, <<>>)
             /\ gg_taxonomy =
                   ExpectedMapping(greengenes_mitochondria_prefix, <<>>)
             /\ organelle_seqs = ExpectedFasta
             /\ Count(fasta, IsMito) = mitos
             /\ Len(fasta) = mitos
             /\ Len(DataRows(silva_taxonomy)) = mitos
             /\ Len(DataRows(gg_taxonomy)) = mitos

C15_Witness ==
    /\ pc = "raised"
    /\ error = "FileNotFoundError"
    /\ ~phytoref_exists
    /\ Len(metaxa2_fasta) = 2
    /\ Len(FastaIds(organelle_seqs)) = 2
    /\ Len(DataRows(gg_taxonomy)) = 2

\* C16: no output handle outlives the run: when the cell has ended,
\* normally or with an exception raised by any open, read or write, none of
\* the three files is open; at every moment the open files are those opened
\* and not yet closed, and they are closed innermost first.
C16_HandlesClosed ==
    /\ pc \in {"done", "raised"} =>
          /\ open_handles = {}
          /\ \A f \in OutputFiles : Performed("close", f) = Performed("open", f)
    /\ open_handles =
          { f \in OutputFiles : Performed("open", f) > Performed("close", f) }
    /\ "organelle_seqs" \in open_handles => "gg_taxonomy" \in open_handles
    /\ "gg_taxonomy" \in open_handles => "silva_taxonomy" \in open_handles

C16_Witness ==
    /\ pc = "raised"
    /\ error = "OSError"
    /\ open_handles = {}
    /\ Performed("open", "organelle_seqs") = 1
    /\ Performed("close", "organelle_seqs") = 1
    /\ Performed("write", "organelle_seqs") = 3
    /\ Performed("write", "silva_taxonomy") = 2

\* The writes of one retained record, in the order the cell issues them.
RecordWrites ==
    << [file |-> "organelle_seqs", what |-> "fasta_header"],
       [file |-> "organelle_seqs", what |-> "fasta_seq"],
       [file |-> "silva_taxonomy", what |-> "row"],
       [file |-> "gg_taxonomy", what |-> "row"] >>

\* C20: at every point of a run, also after a failure, the writes issued
\* for the records so far form whole groups  FASTA header, FASTA sequence,
\* Silva row, Greengenes row  of one identifier each, the last group being
\* possibly unfinished; hence  Greengenes rows <= Silva rows <= FASTA
\* headers <= Greengenes rows + 1,  no mapping row is written for an
\* identifier whose FASTA header is not yet written, and when a record is
\* read every earlier group is finished.  The files opened so far hold
\* exactly the writes issued to them.
C20_WriteOrder ==
    LET IsRecordWrite(e) == e.op = "write" /\ e.what # "header"
        ws == SelectSeq(log, IsRecordWrite)
        n == Len(RecordWrites)
        Issued(r) ==
            Cardinality({ k \in 1..Len(ws) :
                            ws[k].file = r.file /\ ws[k].what = r.what })
        headers == Issued(RecordWrites[1])
        silva == Issued(RecordWrites[3])
        gg == Issued(RecordWrites[4])
    IN /\ \A k \in 1..Len(ws) :
              LET step == ((k - 1) % n) + 1
                  first == k - (step - 1)
              IN /\ ws[k].file = RecordWrites[step].file
                 /\ ws[k].what = RecordWrites[step].what
                 /\ ws[k].id = ws[first].id
       /\ gg <= silva
       /\ silva <= headers
       /\ headers <= gg + 1
       /\ \A k \in 1..Len(ws) :
              ws[k].what = "row" =>
                  \E j \in 1..(k - 1) :
                      ws[j].what = "fasta_header" /\ ws[j].id = ws[k].id
       /\ \A k \in 1..Len(log) :
              log[k].op = "read" =>
                  Len(SelectSeq(SubSeq(log, 1, k), IsRecordWrite)) % n = 0
       /\ \A f \in OutputFiles :
              Performed("open", f) > 0 => Content(f) = Written(f)

C20_Witness ==
    /\ pc = "close_gg"
    /\ error = "OSError"
    /\ Performed("write", "organelle_seqs") = 4
    /\ Performed("write", "silva_taxonomy") = 3
    /\ Performed("write", "gg_taxonomy") = 2
    /\ Performed("read", "phytoref_fasta") = 1

\* The record positions read from an input so far, in the order read.
Reads(file) ==
    LET IsRead(e) == e.op = "read" /\ e.file = file
        rs == SelectSeq(log, IsRead)
    IN [k \in 1..Len(rs) |-> rs[k].index]

Ended == pc \in {"done", "raised"}

\* Each input is opened at most once and its records are read once each,
\* in order, never beyond the last.
VisitedOnceInOrder ==
    /\ Performed("parse", "metaxa2_fasta") <= 1
    /\ Performed("parse", "phytoref_fasta") <= 1
    /\ Reads("metaxa2_fasta") = Positions(Len(Reads("metaxa2_fasta")))
    /\ Reads("phytoref_fasta") = Positions(Len(Reads("phytoref_fasta")))
    /\ Len(Reads("metaxa2_fasta")) <= Len(metaxa2_fasta)
    /\ Len(Reads("phytoref_fasta")) <= Len(phytoref_fasta)

\* A run that completed has read every record of both inputs and met no
\* error.
CompletedAfterLastRecord ==
    Completed =>
        /\ error = "none"
        /\ Reads("metaxa2_fasta") = Positions(Len(metaxa2_fasta))
        /\ Reads("phytoref_fasta") = Positions(Len(phytoref_fasta))

\* Once a statement has failed the cell does nothing but close its files.
StopsAtFirstError ==
    error # "none" =>
        LET failed == { k \in 1..Len(log) :
                          \/ log[k].op = "raise"
                          \/ log[k].op = "parse" /\ log[k].file = "metaxa2_fasta"
                               /\ ~metaxa2_exists
                          \/ log[k].op = "parse" /\ log[k].file = "phytoref_fasta"
                               /\ ~phytoref_exists }
        IN /\ Cardinality(failed) = 1
           /\ \A k \in failed :
                  \A j \in (k + 1)..Len(log) : log[j].op = "close"
           /\ pc # "done"

\* C18: every run over finite inputs ends: it reaches the completed state
\* or the raised state, and takes no step after that.  On the way each
\* record of each input is read exactly once, in order, no input is opened
\* twice, a completed run has read every record of both inputs, and a run
\* that meets an error stops at the first one.
C18_Terminates ==
    /\ <>Ended
    /\ [](Ended => ~ENABLED NextFaults)
    /\ []VisitedOnceInOrder
    /\ []CompletedAfterLastRecord
    /\ []StopsAtFirstError

C18_Witness ==
    /\ Completed
    /\ Reads("metaxa2_fasta") = <<1, 2>>
    /\ Reads("phytoref_fasta") = <<1, 2>>
    /\ Performed("parse", "metaxa2_fasta") = 1
    /\ Performed("parse", "phytoref_fasta") = 1

Reran(how) ==
    \E k \in 1..Len(log) : log[k].op = "rerun" /\ log[k].what \in how

\* The text the earlier run left in a file.
LeftIn(file) ==
    LET k == CHOOSE j \in 1..Len(log) :
                 log[j].op = "left" /\ log[j].file = file
    IN log[k].text

\* C12: two runs of the cell on the same two input collections leave the
\* same three files: when the second run has ended (completed, or raised
\* as the first did), each output file holds exactly the text the first
\* run left in it, whatever the files held before the first run and
\* whatever values the first run left in i, entry and specific_info.
C12_Deterministic ==
    Ended /\ Reran({"same"}) =>
        /\ \A f \in OutputFiles : Content(f) = LeftIn(f)
        /\ Completed <=> metaxa2_exists /\ phytoref_exists

C12_Witness ==
    /\ Completed
    /\ Reran({"same"})
    /\ Len(MitoKeptSeq) = 2
    /\ Len(ChloroKeptSeq) = 1
    /\ Len(phytoref_fasta) = 2
    /\ organelle_seqs = LeftIn("organelle_seqs")
    /\ Performed("write", "organelle_seqs") = 12

\* C13: a complete run leaves in the three files exactly the texts that
\* follow from its own inputs, the texts a run over empty files produces:
\* this holds for a first run over files with earlier contents and for a
\* second run over the files an earlier run left, complete or not, on the
\* same or on other inputs.  Each file holds the writes of this run only.
C13_RegeneratedFromScratch ==
    Completed =>
        /\ silva_taxonomy =
              ExpectedMapping(silva_mitochondria_prefix, silva_chloroplast_prefix)
        /\ gg_taxonomy =
              ExpectedMapping(greengenes_mitochondria_prefix,
                              greengenes_chloroplast_prefix)
        /\ organelle_seqs = ExpectedFasta
        /\ \A f \in OutputFiles : Content(f) = Written(f)

C13_Witness ==
    /\ Completed
    /\ Reran({"other"})
    /\ Len(FastaIds(LeftIn("organelle_seqs"))) = 3
    /\ Len(FastaIds(organelle_seqs)) = 1
    /\ Len(DataRows(LeftIn("silva_taxonomy"))) = 3
    /\ Len(DataRows(silva_taxonomy)) = 1

\* The operations of the present run: the history after the last rerun.
RunLog ==
    LET reruns == { k \in 1..Len(log) : log[k].op = "rerun" }
        from == IF reruns = {} THEN 0
                ELSE CHOOSE k \in reruns : \A q \in reruns : q <= k
    IN SubSeq(log, from + 1, Len(log))

\* The first operations of every run, in the order of the cell.
OpeningOperations ==
    << Opened("silva_taxonomy"),
       Opened("gg_taxonomy"),
       Wrote("silva_taxonomy", "header", <<>>, TaxonomyHeader),
       Wrote("gg_taxonomy", "header", <<>>, TaxonomyHeader),
       Opened("organelle_seqs") >>

\* C21: an input is opened only after the three output files have been
\* opened (truncated) and both header rows written.  So a run that finds
\* metaxa2.fasta missing ends with each mapping holding the header row
\* only and with the combined FASTA empty: what the files held before, the
\* output of an earlier complete run included, is gone.
C21_OutputsTruncatedFirst ==
    LET run == RunLog
        n == Len(OpeningOperations)
    IN /\ \A k \in 1..Len(run) :
              run[k].op \in {"parse", "read"} =>
                  k > n /\ SubSeq(run, 1, n) = OpeningOperations
       /\ pc = "raised" /\ ~metaxa2_exists =>
             /\ error = "FileNotFoundError"
             /\ silva_taxonomy = TaxonomyHeader
             /\ gg_taxonomy = TaxonomyHeader
             /\ organelle_seqs = <<>>

C21_Witness ==
    /\ pc = "raised"
    /\ ~metaxa2_exists
    /\ Reran({"other"})
    /\ Len(FastaIds(LeftIn("organelle_seqs"))) = 3
    /\ Len(DataRows(LeftIn("gg_taxonomy"))) = 3
    /\ organelle_seqs = <<>>
    /\ gg_taxonomy = TaxonomyHeader

NoDuplicates(xs) ==
    \A a \in 1..Len(xs) : \A b \in 1..Len(xs) : a # b => xs[a] # xs[b]

\* C22: when a run has ended, completed or raised, no identifier occurs
\* twice in the combined FASTA nor twice in either mapping, also when the
\* input holds the same record (same description, same sequence) more than
\* once and when a mitochondria and a chloroplast record share an index;
\* no identifier carries both name prefixes.  The identifiers of the
\* indices 0..MaxIndex, of one or two or three digits, are all different.
C22_UniqueIdentifiers ==
    Ended =>
        LET ids == <<FastaIds(organelle_seqs), RowIds(silva_taxonomy),
                     RowIds(gg_taxonomy)>>
            mito == { MitoId(n) : n \in 0..MaxIndex }
            chloro == { ChloroId(n) : n \in 0..MaxIndex }
        IN /\ \A f \in 1..3 :
                  /\ NoDuplicates(ids[f])
                  /\ \A k \in 1..Len(ids[f]) :
                         IsMito(ids[f][k]) # IsChloro(ids[f][k])
           /\ Cardinality(mito) = MaxIndex + 1
           /\ Cardinality(chloro) = MaxIndex + 1
           /\ mito \cap chloro = {}

C22_Witness ==
    /\ Completed
    /\ Len(metaxa2_fasta) = 2
    /\ metaxa2_fasta[1] = metaxa2_fasta[2]
    /\ Len(phytoref_fasta) = 2
    /\ phytoref_fasta[1] = phytoref_fasta[2]
    /\ Len(FastaIds(organelle_seqs)) = 4
    /\ Len(RowIds(gg_taxonomy)) = 4

\* The sequences and the descriptions a record may carry.
AllSeqs == { Join(r.lines) : r \in MitoRecords \cup ChloroRecords }

AllDescriptions == { r.description : r \in MitoRecords \cup ChloroRecords }

\* C23: each filter looks at one field only.  Whether a mitochondria record
\* is retained does not change when its sequence is replaced by any other
\* (a placeholder run included), and whether a chloroplast record is
\* retained does not change when its description is replaced by any other.
\* In the outputs: a mitochondria record with a matching description and
\* 'XXXXXXXXXX' in its sequence is in all three files, and so is every
\* chloroplast record with a clean sequence, also one whose description
\* holds 'XXXXXXXXXX' or never mentions chloroplast.
C23_FiltersIndependent ==
    LET placeholder == <<"X", "X", "X", "X", "X", "X", "X", "X", "X", "X">>
    IN /\ pc = "mito_if" =>
             \A s \in AllSeqs :
                 MitoFilter([entry EXCEPT !.seq = s]) <=> MitoFilter(entry)
       /\ pc = "chloro_if" =>
             \A d \in AllDescriptions :
                 ChloroFilter([entry EXCEPT !.description = d])
                     <=> ChloroFilter(entry)
       /\ Completed =>
             LET fasta == SeqToSet(FastaIds(organelle_seqs))
                 silva == SeqToSet(RowIds(silva_taxonomy))
                 gg == SeqToSet(RowIds(gg_taxonomy))
                 InAll(id) == id \in fasta /\ id \in silva /\ id \in gg
             IN /\ \A k \in 1..Len(metaxa2_fasta) :
                       /\ MitoMatches(metaxa2_fasta[k])
                       /\ Contains(Join(metaxa2_fasta[k].lines), placeholder)
                       => InAll(ExpectedMitoId(k))
                /\ \A k \in 1..Len(phytoref_fasta) :
                       ChloroClean(phytoref_fasta[k])
                       => InAll(ExpectedChloroId(k))

C23_Witness ==
    LET placeholder == <<"X", "X", "X", "X", "X", "X", "X", "X", "X", "X">>
    IN /\ Completed
       /\ Len(metaxa2_fasta) = 1
       /\ Contains(Join(metaxa2_fasta[1].lines), placeholder)
       /\ Len(phytoref_fasta) = 1
       /\ Contains(phytoref_fasta[1].description, placeholder)
       /\ ~Contains(phytoref_fasta[1].description, <<"h", "l", "o", "r", "o">>)
       /\ Len(FastaIds(organelle_seqs)) = 2
       /\ Len(RowIds(silva_taxonomy)) = 2

(***************************************************************************)
(* The supplementation cell of the older notebook, statement by statement.  *)
(***************************************************************************)
\* 'mitochondria' in entry.description or 'Mitochondria' in entry.description
OlderMitoKept(e) ==
    \/ Contains(e.description,
        <<"m", "i", "t", "o", "c", "h", "o", "n", "d", "r", "i", "a">>)
    \/ Contains(e.description,
        <<"M", "i", "t", "o", "c", "h", "o", "n", "d", "r", "i", "a">>)

\* not 'XXXXXXXXXX' in entry.seq
OlderChloroKept(e) ==
    ~Contains(e.seq,
        <<"X", "X", "X", "X", "X", "X", "X", "X", "X", "X">>)

\* The two lines written to organelle_sequences.fasta for a kept
\* mitochondria record.
OlderMitoFasta(n, e) ==
    (   <<">", "m", "e", "t", "a", "x", "a", "2", "_", "m", "i", "t",
          "o", "c", "h", "o", "n", "d", "r", "i", "a", "_">>
     \o str(n) \o <<"\n">>)
    \o (e.seq \o <<"\n">>)

\* The row written to silva_organelle_taxonomy.tsv for it.
OlderMitoSilvaRow(n, e) ==
       <<"m", "e", "t", "a", "x", "a", "2", "_", "m", "i", "t", "o",
         "c", "h", "o", "n", "d", "r", "i", "a", "_">>
    \o str(n)
    \o <<"\t", "d", "_", "_", "B", "a", "c", "t", "e", "r", "i", "a",
         ";", " ", "p", "_", "_", "P", "r", "o", "t", "e", "o", "b",
         "a", "c", "t", "e", "r", "i", "a", ";", " ", "c", "_", "_",
         "A", "l", "p", "h", "a", "p", "r", "o", "t", "e", "o", "b",
         "a", "c", "t", "e", "r", "i", "a", ";", " ", "o", "_", "_",
         "R", "i", "c", "k", "e", "t", "t", "s", "i", "a", "l", "e",
         "s", ";", " ", "f", "_", "_", "M", "i", "t", "o", "c", "h",
         "o", "n", "d", "r", "i", "a", ";", " ", "g", "_", "_", "M",
         "i", "t", "o", "c", "h", "o", "n", "d", "r", "i", "a", ";",
         " ", "s", "_", "_">>
    \o Last(Split(e.description, ";"))
    \o <<"\n">>

\* The row written to gg_organelle_taxonomy.tsv for it.
OlderMitoGGRow(n, e) ==
       <<"m", "e", "t", "a", "x", "a", "2", "_", "m", "i", "t", "o",
         "c", "h", "o", "n", "d", "r", "i", "a", "_">>
    \o str(n)
    \o <<"\t", "k", "_", "_", "B", "a", "c", "t", "e", "r", "i", "a",
         ";", " ", "p", "_", "_", "P", "r", "o", "t", "e", "o", "b",
         "a", "c", "t", "e", "r", "i", "a", ";", " ", "c", "_", "_",
         "A", "l", "p", "h", "a", "p", "r", "o", "t", "e", "o", "b",
         "a", "c", "t", "e", "r", "i", "a", ";", " ", "o", "_", "_",
         "R", "i", "c", "k", "e", "t", "t", "s", "i", "a", "l", "e",
         "s", ";", " ", "f", "_", "_", "m", "i", "t", "o", "c", "h",
         "o", "n", "d", "r", "i", "a", ";", " ", "g", "_", "_", "M",
         "i", "t", "o", "c", "h", "o", "n", "d", "r", "i", "a", ";",
         " ", "s", "_", "_">>
    \o Last(Split(e.description, ";"))
    \o <<"\n">>

\* The two lines written to organelle_sequences.fasta for a kept
\* chloroplast record.
OlderChloroFasta(n, e) ==
    (   <<">", "p", "h", "y", "t", "o", "r", "e", "f", "_", "c", "h",
          "l", "o", "r", "o", "p", "l", "a", "s", "t", "_">>
     \o str(n) \o <<"\n">>)
    \o (e.seq \o <<"\n">>)

OlderChloroSilvaRow(n, e) ==
       <<"p", "h", "y", "t", "o", "r", "e", "f", "_", "c", "h", "l",
         "o", "r", "o", "p", "l", "a", "s", "t", "_">>
    \o str(n)
    \o <<"\t", "d", "_", "_", "B", "a", "c", "t", "e", "r", "i", "a",
         ";", " ", "p", "_", "_", "C", "y", "a", "n", "o", "b", "a",
         "c", "t", "e", "r", "i", "a", ";", " ", "c", "_", "_", "C",
         "y", "a", "n", "o", "b", "a", "c", "t", "e", "r", "i", "i",
         "a", ";", " ", "o", "_", "_", "C", "h", "l", "o", "r", "o",
         "p", "l", "a", "s", "t", ";", " ", "f", "_", "_", "C", "h",
         "l", "o", "r", "o", "p", "l", "a", "s", "t", ";", " ", "g",
         "_", "_", "C", "h", "l", "o", "r", "o", "p", "l", "a", "s",
         "t", ";", " ", "s", "_", "_">>
    \o Last(Split(e.description, "|"))
    \o <<"\n">>

OlderChloroGGRow(n, e) ==
       <<"p", "h", "y", "t", "o", "r", "e", "f", "_", "c", "h", "l",
         "o", "r", "o", "p", "l", "a", "s", "t", "_">>
    \o str(n)
    \o <<"\t", "k", "_", "_", "B", "a", "c", "t", "e", "r", "i", "a",
         ";", " ", "p", "_", "_", "C", "y", "a", "n", "o", "b", "a",
         "c", "t", "e", "r", "i", "a", ";", " ", "c", "_", "_", "C",
         "h", "l", "o", "r", "o", "p", "l", "a", "s", "t", ";", " ",
         "o", "_", "_", "C", "h", "l", "o", "r", "o", "p", "l", "a",
         "s", "t", ";", " ", "f", "_", "_", "C", "h", "l", "o", "r",
         "o", "p", "l", "a", "s", "t", ";", " ", "g", "_", "_", "C",
         "h", "l", "o", "r", "o", "p", "l", "a", "s", "t", ";", " ",
         "s", "_", "_">>
    \o Last(Split(e.description, "|"))
    \o <<"\n">>

\* What one pass of the mitochondria loop writes to each file.
OlderMitoBody(n, e) ==
    IF OlderMitoKept(e)
    THEN [organelle_seqs |-> OlderMitoFasta(n, e),
          silva_taxonomy |-> OlderMitoSilvaRow(n, e),
          gg_taxonomy |-> OlderMitoGGRow(n, e)]
    ELSE [organelle_seqs |-> <<>>, silva_taxonomy |-> <<>>,
          gg_taxonomy |-> <<>>]

\* What one pass of the chloroplast loop writes to each file.
OlderChloroBody(n, e) ==
    IF OlderChloroKept(e)
    THEN [organelle_seqs |-> OlderChloroFasta(n, e),
          silva_taxonomy |-> OlderChloroSilvaRow(n, e),
          gg_taxonomy |-> OlderChloroGGRow(n, e)]
    ELSE [organelle_seqs |-> <<>>, silva_taxonomy |-> <<>>,
          gg_taxonomy |-> <<>>]

\* Faulty variant: the index counts from one.
enumerate_OneBased(records) ==
    [k \in 1..Len(records) |-> <<k, ParseRecord(records[k])>>]

\* enumerate(SeqIO.parse(...)): every record with its index, from 0.
enumerate(records) ==
    [k \in 1..Len(records) |-> <<k - 1, ParseRecord(records[k])>>]

\* 'Feature ID\tTaxon\n'
OlderHeader == <<"F", "e", "a", "t", "u", "r", "e", " ", "I", "D", "\t", "T",
                 "a", "x", "o", "n", "\n">>

older_files == <<older_silva_taxonomy, older_gg_taxonomy, older_organelle_seqs>>

\* The state of the newer notebook's cell.
supplementer == <<inputs, silva_taxonomy, gg_taxonomy, organelle_seqs,
                  open_handles, pc, locals, error, log>>

\* os.path.abspath(path): the path from the kernel's working directory.
abspath(path) == "<cwd>/" \o path

\* The names the import cell binds.
ImportedNames ==
    {"Bio", "SeqIO", "os", "glob", "shutil", "tarfile", "tempfile", "pysam",
     "urllib", "ZipFile", "abspath", "exists", "join", "defaultdict",
     "Artifact", "classify_consensus_vsearch", "extract_reads", "Metadata",
     "filter_samples", "merge", "merge_seqs", "merge_taxa", "rarefy",
     "filter_table", "summarize"}

\* The import cell.
ImportsCell ==
    /\ Execute("imports", <<Stmt(30, {}, ImportedNames)>>)
    /\ UNCHANGED <<supplementer, older_files, disk>>

\* working_dir and refs_dir of the first part.
WorkingDirCell ==
    /\ Execute("working_dir",
               << Assign(56, {"os"}, "working_dir", abspath("../output")),
                  Assign(57, {"working_dir"}, "refs_dir",
                         abspath("../output") \o "/taxonomy_references") >>)
    /\ UNCHANGED <<supplementer, older_files, disk>>

\* def download_file(url, local_filepath)
DownloadFileCell ==
    /\ Execute("download_file", <<Stmt(80, {}, {"download_file"})>>)
    /\ UNCHANGED <<supplementer, older_files, disk>>

\* The downloads of the reference files; download_file reads urllib and
\* shutil when it is called.
DownloadCell ==
    /\ Execute("download",
               << Stmt(91, {"os", "refs_dir"}, {}),
                  Stmt(93, {"os", "refs_dir"}, {}),
                  Stmt(94, {"download_file", "refs_dir", "urllib", "shutil"},
                       {}),
                  Stmt(96, {"os", "refs_dir"}, {}),
                  Stmt(97, {"download_file", "refs_dir", "urllib", "shutil"},
                       {}),
                  Stmt(99, {"os", "refs_dir"}, {}),
                  Stmt(100, {"download_file", "refs_dir", "urllib", "shutil"},
                       {}),
                  Stmt(102, {"os", "refs_dir"}, {}),
                  Stmt(103, {"download_file", "refs_dir", "urllib", "shutil"},
                       {}),
                  Stmt(105, {"os", "refs_dir"}, {}),
                  Stmt(106, {"download_file", "refs_dir", "urllib", "shutil"},
                       {}) >>)
    /\ UNCHANGED <<supplementer, older_files, disk>>

\* The two archives are unpacked.
ExtractCell ==
    /\ Execute("extract",
               << Stmt(116, {"tarfile", "refs_dir"}, {"tar"}),
                  Stmt(117, {"tar", "refs_dir"}, {}),
                  Stmt(118, {"tarfile", "refs_dir"}, {"tar"}),
                  Stmt(119, {"tar", "refs_dir"}, {}) >>)
    /\ UNCHANGED <<supplementer, older_files, disk>>

\* The Metaxa2 database is dumped to metaxa2.fasta.
Metaxa2Cell ==
    /\ Execute("metaxa2",
               << Stmt(135, {"os", "refs_dir"}, {}),
                  Stmt(137, {"shutil", "refs_dir"}, {}),
                  Stmt(139, {"os", "refs_dir"}, {}) >>)
    /\ UNCHANGED <<supplementer, older_files, disk>>

\* The statements the supplementation cell executes on the two inputs.
OlderSupplementationStatements ==
    LET mito == enumerate(metaxa2_fasta)
        chloro == enumerate(phytoref_fasta)
        body == {"organelle_seqs", "silva_taxonomy", "gg_taxonomy", "i",
                 "entry"}
    IN << Stmt(155, {"refs_dir"}, {"silva_taxonomy"}),
          Stmt(156, {"refs_dir"}, {"gg_taxonomy"}),
          Stmt(157, {"silva_taxonomy"}, {}),
          Stmt(158, {"gg_taxonomy"}, {}),
          Stmt(159, {"refs_dir"}, {"organelle_seqs"}) >>
       \o (IF ~metaxa2_exists
           THEN <<Raises(160, {"SeqIO", "refs_dir"}, "FileNotFoundError")>>
           ELSE <<Stmt(160, {"SeqIO", "refs_dir"},
                       IF mito = <<>> THEN {} ELSE {"i", "entry"})>>
                \o (IF mito = <<>> THEN <<>>
                    ELSE <<Stmt(161, {"entry"}, {})>>)
                \o (IF \E k \in 1..Len(mito) : OlderMitoKept(mito[k][2])
                    THEN <<Stmt(162, body, {"specific_info"})>>
                    ELSE <<>>))
       \o (IF ~phytoref_exists
           THEN <<Raises(167, {"SeqIO", "refs_dir"}, "FileNotFoundError")>>
           ELSE <<Stmt(167, {"SeqIO", "refs_dir"},
                       IF chloro = <<>> THEN {} ELSE {"i", "entry"})>>
                \o (IF chloro = <<>> THEN <<>>
                    ELSE <<Stmt(168, {"entry"}, {})>>)
                \o (IF \E k \in 1..Len(chloro) : OlderChloroKept(chloro[k][2])
                    THEN <<Stmt(169, body, {"specific_info"})>>
                    ELSE <<>>))

\* The text the cell leaves in one of its files, old being the file's text
\* before: the file is opened with 'w' at line open, its header written at
\* line header (0: none), then come the two loops; an exception leaves what
\* was written.
OlderText(file, open, header, old, stopped) ==
    LET done(line) == stopped = 0 \/ line < stopped
        mito == enumerate(metaxa2_fasta)
        chloro == enumerate(phytoref_fasta)
    IN IF ~done(open) THEN old
       ELSE (IF header # 0 /\ done(header) THEN OlderHeader ELSE <<>>)
            \o (IF done(160)
                THEN Join([k \in 1..Len(mito) |->
                              OlderMitoBody(mito[k][1], mito[k][2])[file]])
                ELSE <<>>)
            \o (IF done(167)
                THEN Join([k \in 1..Len(chloro) |->
                              OlderChloroBody(chloro[k][1],
                                              chloro[k][2])[file]])
                ELSE <<>>)

\* The supplementation cell.
OlderSupplementationCell ==
    LET stopped == Outcome("supplementation", OlderSupplementationStatements,
                           bound, namespace).last.line
    IN /\ Execute("supplementation", OlderSupplementationStatements)
       /\ older_silva_taxonomy' =
              OlderText("silva_taxonomy", 155, 157, older_silva_taxonomy,
                        stopped)
       /\ older_gg_taxonomy' =
              OlderText("gg_taxonomy", 156, 158, older_gg_taxonomy, stopped)
       /\ older_organelle_seqs' =
              OlderText("organelle_seqs", 159, 0, older_organelle_seqs,
                        stopped)
       /\ UNCHANGED <<supplementer, disk>>

\* The cell that is executed k-th when the cells run top to bottom.
InOrder(k) == execution_count = k - 1

\* The older notebook executed from the top down to its supplementation
\* cell.
NextOlderSupplementation ==
    \/ InOrder(1) /\ ImportsCell
    \/ InOrder(2) /\ WorkingDirCell
    \/ InOrder(3) /\ DownloadFileCell
    \/ InOrder(4) /\ DownloadCell
    \/ InOrder(5) /\ ExtractCell
    \/ InOrder(6) /\ Metaxa2Cell
    \/ InOrder(7) /\ OlderSupplementationCell

\* Both notebooks on the same two input files: the newer cell, then the
\* older notebook.
NextBothNotebooks ==
    \/ Next
    \/ pc \in {"done", "raised"} /\ NextOlderSupplementation

SpecBothNotebooks == Init /\ [][NextBothNotebooks]_vars

\* The older cell has been executed.
OlderSupplemented == last.cell = "supplementation"

\* C24: run on the same two input files, the supplementation cells of the two
\* notebooks leave the same text in the combined FASTA, in the Silva mapping
\* and in the Greengenes mapping (whose file name alone differs), with the
\* same identifiers, and end the same way.
C24_SameTransform ==
    pc \in {"done", "raised"} /\ OlderSupplemented =>
        /\ older_organelle_seqs = organelle_seqs
        /\ older_silva_taxonomy = silva_taxonomy
        /\ older_gg_taxonomy = gg_taxonomy
        /\ FastaIds(older_organelle_seqs) = FastaIds(organelle_seqs)
        /\ last.raised = error

\* Both cells kept a mitochondria record that was not the first of its file
\* and a chloroplast record, so indices above 0 were assigned.
C24_Witness ==
    /\ pc = "done"
    /\ OlderSupplemented
    /\ last.raised = "none"
    /\ Len(metaxa2_fasta) = 2
    /\ ~MitoMatches(metaxa2_fasta[1])
    /\ MitoMatches(metaxa2_fasta[2])
    /\ \E k \in 1..Len(phytoref_fasta) : ChloroClean(phytoref_fasta[k])
    /\ Len(FastaIds(older_organelle_seqs)) >= 2
    /\ older_gg_taxonomy # older_silva_taxonomy

(***************************************************************************)
(* The other cells of the older notebook.  The calls into the libraries are *)
(* taken to succeed, except that a file of the study that does not exist    *)
(* cannot be loaded.                                                        *)
(***************************************************************************)
\* The files of the study whose existence the notebook depends on.
StudyFiles ==
    { abspath("..") \o "/input/sample_metadata_live_vs_dead_combo.tsv",
      abspath("..") \o "/input/rep_seqs_merged.qza",
      abspath("..") \o "/output/taxonomy_references/",
      abspath("..") \o "/input/feature_table_live_vs_dead.qza" }

\* os.path.exists(path): the directory above the notebook's always exists.
exists(path) == path = abspath("..") \/ path \in disk

\* os.path.join(a, b)
join(a, b) == a \o "/" \o b

\* references = ['gg','silva','gg_extended','silva_extended']
references == <<"gg", "silva", "gg_extended", "silva_extended">>

\* The items of the dict taxonomy_files, in insertion order.
taxonomy_files ==
    << <<"greengenes_reference", "../output/gg_reference_taxonomy.qza">>,
       <<"greengenes_extended",
         "../output/gg_extended_reference_taxonomy.qza">>,
       <<"silva_reference", "../output/silva_reference_taxonomy.qza">>,
       <<"silva_extended",
         "../output/silva_extended_reference_taxonomy.qza">> >>

\* A call that loads the file a name holds the path of.
Load(line, reads, name, target, kind) ==
    IF exists(namespace[name])
    THEN Stmt(line, reads \cup {name}, {target})
    ELSE Raises(line, reads \cup {name}, kind)

\* Import, V4 extraction, merge and save of the sequences.
MergeSequencesCell ==
    /\ Execute("merge_sequences",
               << Stmt(194, {"Artifact", "refs_dir"}, {"organelle_seqs"}),
                  Stmt(196, {"extract_reads", "organelle_seqs"},
                       {"v4_organelle_seqs"}),
                  Stmt(199, {"merge_seqs", "v4_organelle_seqs", "Artifact",
                             "refs_dir"}, {"silva_extended_seqs"}),
                  Save(203, {"silva_extended_seqs", "refs_dir"},
                       namespace["refs_dir"]
                           \o "/silva_extended_sequences.qza"),
                  Stmt(204, {"Artifact", "refs_dir"}, {"gg_seqs"}),
                  Stmt(206, {"extract_reads", "gg_seqs"}, {"v4_gg_seqs"}),
                  Save(209, {"v4_gg_seqs", "refs_dir"},
                       namespace["refs_dir"] \o "/gg_sequences.qza"),
                  Stmt(210, {"merge_seqs", "organelle_seqs", "gg_seqs"},
                       {"gg_extended_seqs"}),
                  Save(211, {"gg_extended_seqs", "refs_dir"},
                       namespace["refs_dir"]
                           \o "/gg_extended_sequences.qza") >>)
    /\ UNCHANGED <<supplementer, older_files, disk>>

\* Import, merge and save of the taxonomies.
MergeTaxonomyCell ==
    /\ Execute("merge_taxonomy",
               << Stmt(232, {"Artifact", "refs_dir"},
                       {"silva_organelle_taxonomy"}),
                  Stmt(235, {"merge_taxa", "silva_organelle_taxonomy",
                             "Artifact", "refs_dir"},
                       {"silva_extended_taxonomy"}),
                  Save(238, {"silva_extended_taxonomy", "refs_dir"},
                       namespace["refs_dir"]
                           \o "/silva_extended_taxonomy.qza"),
                  Stmt(239, {"Artifact", "refs_dir"}, {"gg_taxonomy"}),
                  Save(242, {"gg_taxonomy", "refs_dir"},
                       namespace["refs_dir"] \o "/gg_taxonomy.qza"),
                  Stmt(243, {"Artifact", "refs_dir"},
                       {"gg_organelle_taxonomy"}),
                  Stmt(246, {"merge_taxa", "gg_organelle_taxonomy",
                             "gg_taxonomy"}, {"gg_extended_taxonomy"}),
                  Save(247, {"gg_extended_taxonomy", "refs_dir"},
                       namespace["refs_dir"]
                           \o "/gg_extended_taxonomy.qza") >>)
    /\ UNCHANGED <<supplementer, older_files, disk>>

\* working_dir, metadata_path, seqs_path, taxonomy_reference_dir of the
\* second part.
PathsCell ==
    /\ Execute("paths",
               << Assign(270, {"abspath"}, "working_dir", abspath("..")),
                  Assign(273, {"working_dir"}, "metadata_path",
                         abspath("..")
                         \o "/input/sample_metadata_live_vs_dead_combo.tsv"),
                  Assign(274, {"working_dir"}, "seqs_path",
                         abspath("..") \o "/input/rep_seqs_merged.qza"),
                  Assign(277, {"working_dir"}, "taxonomy_reference_dir",
                         abspath("..") \o "/output/taxonomy_references/") >>)
    /\ UNCHANGED <<supplementer, older_files, disk>>

\* The first check: for existing_file in [working_dir, metadata_path,
\* seqs_path, taxonomy_reference_dir].
VerifyCell ==
    LET names == <<"working_dir", "metadata_path", "seqs_path",
                   "taxonomy_reference_dir">>
        pass(k) ==
            << Assign(303, {names[j] : j \in 1..Len(names)}, "existing_file",
                      namespace[names[k]]),
               Stmt(304, {"os", "existing_file"}, {}) >>
            \o (IF ~exists(namespace[names[k]])
                THEN <<Raises(305, {"existing_file"}, "IOError")>>
                ELSE <<>>)
    IN /\ Execute("verify",
                  <<Prints(302, {}, "Verifying that all needed starting data files exist.")>>
                  \o Join([k \in 1..Len(names) |-> pass(k)])
                  \o <<Prints(306, {}, "Done.")>>)
       /\ UNCHANGED <<supplementer, older_files, disk>>

\* references, metadata and seqs are loaded.
LoadInputsCell ==
    /\ Execute("load_inputs",
               << Stmt(336, {}, {"references"}),
                  Load(337, {"Metadata"}, "metadata_path", "metadata",
                       "MetadataFileError"),
                  Load(338, {"Artifact"}, "seqs_path", "seqs",
                       "ValueError") >>)
    /\ UNCHANGED <<supplementer, older_files, disk>>

\* The sequences are classified against each of the four references.
ClassifyCell ==
    LET pass(k) ==
            << Stmt(458, {"references"}, {"reference"}),
               Stmt(459, {"taxonomy_reference_dir", "reference"},
                    {"reference_otu_path"}),
               Stmt(460, {"taxonomy_reference_dir", "reference"},
                    {"reference_taxonomy_path"}),
               Load(461, {"Artifact", "reference_otu_path"},
                    "taxonomy_reference_dir", "reads", "ValueError"),
               Stmt(462, {"Artifact", "reference_taxonomy_path"},
                    {"taxonomy"}),
               Stmt(463, {"vsearch_results", "reference",
                          "classify_consensus_vsearch", "seqs", "reads",
                          "taxonomy"}, {"vsearch_results[reference]"}) >>
    IN /\ Execute("classify",
                  <<Reset(457, {}, "vsearch_results",
                          "vsearch_results[reference]")>>
                  \o Join([k \in 1..Len(references) |-> pass(k)]))
       /\ UNCHANGED <<supplementer, older_files, disk>>

\* The classifications are saved.
SaveClassificationCell ==
    LET filled == "vsearch_results[reference]" \in bound
        pass(k) ==
            << Stmt(480, {"vsearch_results"}, {"reference"}),
               Stmt(481, {"vsearch_results", "reference"},
                    {"classification_taxonomy"}),
               Save(482, {"classification_taxonomy", "working_dir",
                          "reference"},
                    namespace["working_dir"] \o "/output/" \o references[k]
                        \o "_reference_taxonomy.qza") >>
    IN /\ Execute("save_classification",
                  IF filled
                  THEN Join([k \in 1..Len(references) |-> pass(k)])
                  ELSE <<Stmt(480, {"vsearch_results"}, {})>>)
       /\ UNCHANGED <<supplementer, older_files, disk>>

\* The inputs of the table filtering; required_files is built from
\* feature_table, mapping_file and sequence_file.
TableInputsCell ==
    /\ Execute("table_inputs",
               << Assign(505, {"abspath"}, "output_filepath",
                         abspath("../output")),
                  Stmt(506, {"abspath"}, {"input_filepath"}),
                  Assign(507, {"abspath"}, "output_dir",
                         abspath("../output/filtered_tables")),
                  Assign(510, {"working_dir"}, "feature_table_dir",
                         namespace["working_dir"]
                             \o "/input/feature_table_live_vs_dead.qza"),
                  Assign(511, {"metadata_path"}, "mapping_file",
                         namespace["metadata_path"]),
                  Assign(512, {"seqs_path"}, "sequence_file",
                         namespace["seqs_path"]),
                  Stmt(515, {}, {"taxonomy_files"}),
                  Stmt(520, {"feature_table", "mapping_file",
                             "sequence_file"}, {"required_files"}) >>)
    /\ UNCHANGED <<supplementer, older_files, disk>>

\* The second check: for existing_files in required_files, the test is on
\* existing_file.
CheckCell ==
    LET pass(k) ==
            << Stmt(546, {"required_files"}, {"existing_files"}),
               Stmt(547, {"exists", "existing_file"}, {}) >>
            \o (IF ~exists(namespace["existing_file"])
                THEN <<Raises(548, {"existing_file"}, "IOError")>>
                ELSE <<>>)
    IN /\ Execute("check",
                  <<Prints(545, {}, "Verifying that all needed starting data files exist.")>>
                  \o Join([k \in 1..3 |-> pass(k)])
                  \o <<Prints(550, {}, "Done.")>>)
       /\ UNCHANGED <<supplementer, older_files, disk>>

\* The feature table is loaded and filtered with each of the four
\* taxonomies.
FilterCell ==
    LET pass(k) ==
            LET label == taxonomy_files[k][1]
                taxonomy_file == taxonomy_files[k][2]
                qza == join(namespace["output_dir"],
                            "feature_table_filtered_" \o label \o "_mws.qza")
                qzv == join(namespace["output_dir"],
                            "feature_table_filtered_" \o label \o "_mws.qzv")
            IN << Stmt(605, {"taxonomy_files"}, {"label", "taxonomy_file"}),
                  Prints(606, {"label", "taxonomy_file"},
                         "Analyzing data using the " \o label
                             \o " taxonomy (" \o taxonomy_file \o ")"),
                  Stmt(607, {"Artifact", "taxonomy_file"}, {"taxonomy"}),
                  Prints(608, {"feature_table"},
                         "Removing mitochondia from: <artifact>"),
                  Stmt(610, {"filter_table", "feature_table", "taxonomy"},
                       {"filter_table_results"}),
                  Stmt(611, {"filter_samples", "filter_table_results",
                             "metadata"}, {"filter_table_results"}),
                  Stmt(612, {"filter_table_results"}, {"filtered_table"}),
                  Stmt(615, {"label"}, {"output_filename"}),
                  Assign(616, {"join", "output_dir", "output_filename"},
                         "output_filepath", qza),
                  Prints(617, {"output_filepath"},
                         "Saving results to: " \o qza),
                  Save(618, {"filtered_table", "output_filepath"}, qza),
                  Stmt(621, {"summarize", "filtered_table", "metadata"},
                       {"summary_visualization"}),
                  Stmt(622, {"summary_visualization"}, {"vis"}),
                  Stmt(623, {"label"}, {"output_filename"}),
                  Assign(624, {"join", "output_dir", "output_filename"},
                         "output_filepath", qzv),
                  Prints(625, {"output_filepath"},
                         "Saving file summary to: " \o qzv),
                  Stmt(627, {"filtered_feature_tables_by_taxonomy", "label",
                             "filtered_table"},
                       {"filtered_feature_tables_by_taxonomy[label]"}),
                  Prints(628, {"label"},
                         "Done with processing " \o label
                             \o " taxonomy annotations!\n\n") >>
    IN /\ Execute("filter",
                  << Reset(601, {"defaultdict"},
                           "filtered_feature_tables_by_taxonomy",
                           "filtered_feature_tables_by_taxonomy[label]"),
                     Load(603, {"Artifact"}, "feature_table_dir",
                          "feature_table", "ValueError") >>
                  \o Join([k \in 1..Len(taxonomy_files) |-> pass(k)]))
       /\ UNCHANGED <<supplementer, older_files, disk>>

\* The filtered tables are rarefied and saved.
RarefyCell ==
    LET filled == "filtered_feature_tables_by_taxonomy[label]" \in bound
        pass(k) ==
            LET label == taxonomy_files[k][1]
                qza == join(namespace["output_dir"],
                            "feature_table_" \o label \o "_1000.qza")
            IN << Stmt(664, {"filtered_feature_tables_by_taxonomy"},
                       {"label", "filtered_feature_tables"}),
                  Prints(665, {"filtered_feature_tables",
                               "rarefaction_depth"},
                         "Rarefying feature table <artifact> to 1000 sequences/sample."),
                  Stmt(666, {"rarefy", "filtered_feature_tables",
                             "rarefaction_depth"}, {"rarefy_results"}),
                  Stmt(668, {"rarefy_results"}, {"rarefied_filtered_table"}),
                  Stmt(671, {"label", "rarefaction_depth"},
                       {"output_filename"}),
                  Assign(672, {"join", "output_dir", "output_filename"},
                         "output_filepath", qza),
                  Prints(673, {}, "Saving results to:{output_filepath}"),
                  Save(674, {"rarefied_filtered_table", "output_filepath"},
                       qza),
                  Stmt(677, {"rarefied_feature_tables_by_taxonomy", "label",
                             "rarefied_filtered_table"}, {}) >>
    IN /\ Execute("rarefy",
                  << Stmt(660, {}, {"rarefaction_depth"}),
                     Stmt(662, {"defaultdict"},
                          {"rarefied_feature_tables_by_taxonomy"}) >>
                  \o (IF filled
                      THEN Join([k \in 1..Len(taxonomy_files) |-> pass(k)])
                      ELSE <<Stmt(664,
                                  {"filtered_feature_tables_by_taxonomy"},
                                  {})>>))
       /\ UNCHANGED <<supplementer, older_files, disk>>

\* Between two cells a file of the study is moved away.
FileRemoved ==
    /\ \E path \in disk : disk' = disk \ {path}
    /\ UNCHANGED <<supplementer, older_files, kernel>>

\* The older notebook before its first cell is executed: the two reference
\* files hold at most one record each, any of the study's files may be
\* missing.
InitOlderNotebook ==
    /\ metaxa2_exists \in BOOLEAN
    /\ metaxa2_fasta \in SeqsUpTo(FaultMitoRecords, 1)
    /\ ~metaxa2_exists => metaxa2_fasta = <<>>
    /\ phytoref_exists \in BOOLEAN
    /\ phytoref_fasta \in SeqsUpTo(FaultChloroRecords, 1)
    /\ ~phytoref_exists => phytoref_fasta = <<>>
    /\ silva_taxonomy = <<>>
    /\ gg_taxonomy = <<>>
    /\ organelle_seqs = <<>>
    /\ open_handles = {}
    /\ pc = "open_silva"
    /\ i = 0
    /\ entry = NoEntry
    /\ specific_info = <<>>
    /\ error = "none"
    /\ log = <<>>
    /\ older_silva_taxonomy = OlderPrior
    /\ older_gg_taxonomy = OlderPrior
    /\ older_organelle_seqs = OlderPrior
    /\ FreshKernel
    /\ disk \in SUBSET StudyFiles

\* The code cells executed once each, top to bottom; a cell that raised does
\* not keep the next one from being executed.
NextRunAll ==
    \/ InOrder(1) /\ ImportsCell
    \/ InOrder(2) /\ WorkingDirCell
    \/ InOrder(3) /\ DownloadFileCell
    \/ InOrder(4) /\ DownloadCell
    \/ InOrder(5) /\ ExtractCell
    \/ InOrder(6) /\ Metaxa2Cell
    \/ InOrder(7) /\ OlderSupplementationCell
    \/ InOrder(8) /\ MergeSequencesCell
    \/ InOrder(9) /\ MergeTaxonomyCell
    \/ InOrder(10) /\ PathsCell
    \/ InOrder(11) /\ VerifyCell
    \/ InOrder(12) /\ LoadInputsCell
    \/ InOrder(13) /\ ClassifyCell
    \/ InOrder(14) /\ SaveClassificationCell
    \/ InOrder(15) /\ TableInputsCell
    \/ InOrder(16) /\ CheckCell
    \/ InOrder(17) /\ FilterCell
    \/ InOrder(18) /\ RarefyCell

SpecRunAll == InitOlderNotebook /\ [][NextRunAll]_vars

\* A session on the table filtering: after the import cell, the cells that
\* prepare and do the filtering are executed in any order, any number of
\* times, as the execution counts recorded in the notebook show, and files
\* may go between two cells.
InitSession ==
    /\ InitOlderNotebook
    /\ ~metaxa2_exists
    /\ ~phytoref_exists

NextSession ==
    \/ InOrder(1) /\ ImportsCell
    \/ /\ execution_count \in 1..(MaxExecutions - 1)
       /\ \/ PathsCell
          \/ VerifyCell
          \/ LoadInputsCell
          \/ TableInputsCell
          \/ CheckCell
          \/ FilterCell
    \/ FileRemoved

SpecSession == InitSession /\ [][NextSession]_vars

(***************************************************************************)
(* Properties of the older notebook's second part.                          *)
(***************************************************************************)
\* The paths of the feature table, of the mapping file and of the sequence
\* file.
RequiredFiles ==
    { namespace["feature_table_dir"], namespace["mapping_file"],
      namespace["sequence_file"] }

\* The file existed when the cell executed last ran.
Found(path) == path = abspath("..") \/ path \in last.found

\* The text was printed by the cell executed last.
Printed(text) == \E k \in 1..Len(last.stdout) : last.stdout[k] = text

\* How many times the cell executed last saved the file.
Saves(file) == Cardinality({ k \in 1..Len(last.saved) : last.saved[k] = file })

\* The cell executed last was the second check, with required_files and the
\* name it tests bound.
Checked == last.cell = "check" /\ {"required_files", "existing_file"} \subseteq bound

\* C25: the check before table filtering raises an IOError whenever one of
\* the three required files (feature table, mapping file, sequence file) does
\* not exist, and prints "Done." only when all three exist.
C25_RequiredFilesChecked ==
    Checked =>
        /\ (\E f \in RequiredFiles : ~Found(f)) => last.raised = "IOError"
        /\ Printed("Done.") => \A f \in RequiredFiles : Found(f)

\* C26: in the filtering loop, for each of the four taxonomy labels the
\* filtered table (.qza) and the summary visualization (.qzv) have each been
\* saved once when "Done with processing {label}" is printed.
C26_BothOutputsSaved ==
    last.cell = "filter" =>
        \A k \in 1..Len(taxonomy_files) :
            LET label == taxonomy_files[k][1]
                name == "feature_table_filtered_" \o label \o "_mws"
            IN Printed("Done with processing " \o label
                           \o " taxonomy annotations!\n\n") =>
                   /\ Saves(join(namespace["output_dir"], name \o ".qza")) = 1
                   /\ Saves(join(namespace["output_dir"], name \o ".qzv")) = 1

\* All the files the notebook loads exist, so that no call into a library
\* fails.
AllFilesExist ==
    /\ disk = StudyFiles
    /\ metaxa2_exists
    /\ phytoref_exists

\* C27: when the code cells are executed once each, top to bottom, in a
\* fresh session (all the files being there), every name is assigned before
\* it is read: no cell ends with a NameError, and once the cell that builds
\* required_files has been executed, feature_table, mapping_file,
\* sequence_file and required_files are bound.
C27_AssignedBeforeRead ==
    AllFilesExist =>
        /\ last.raised # "NameError"
        /\ execution_count >= 15 =>
               {"feature_table", "mapping_file", "sequence_file",
                "required_files"} \subseteq bound

====
